---- MODULE Spec2Model ----
(***************************************************************************)
(* impromptu: a Textual sidebar that orchestrates agent panes in tmux.     *)
(*                                                                         *)
(* The module models                                                       *)
(*   - the tmux server as the sidebar drives it (tmux.py): the panes of    *)
(*     window 0 in pane-index order and the panes parked in background     *)
(*     windows;                                                            *)
(*   - the reactive StateStore (state.py);                                 *)
(*   - the Sidebar of main.py (pane tracking, session matching) and the    *)
(*     Sidebar of ui/sidebar.py (hook sockets);                            *)
(*   - GeminiAgent.handle_hook (agent.py) and the session claims of        *)
(*     models.py.                                                          *)
(*                                                                         *)
(* Python indices are kept 0-based: At(s, i) reads s[i].                   *)
(* Display strings are kept as short tokens; notification ids, which the   *)
(* program never reads, are left out.                                      *)
(***************************************************************************)
EXTENDS Integers, Sequences, FiniteSets, TLC

\* ------------------------------------------------------------------ bounds
\* highest tmux pane id the server hands out (%0 is the sidebar, %1 the
\* pane of the startup script)
MaxPanes == 6

\* hook events queued for the event loop at one time
MaxPending == 1

\* hook connections accepted in one run of the hook specification
MaxHooks == 4

\* highest pane id handed out in the runs of the hook specification
MaxUiPanes == 3

\* key presses the sidebar of the hook specification handles in one run
MaxKeys == 2

\* agents a client of the bare store adds
MaxStoreAgents == 2

\* _notify calls in one run of the bare store
MaxNotified == 4

\* seconds the clock runs
MaxTime == 3

\* highest pane id handed out in the runs with faults
MaxFaultPanes == 4

\* last second at which the runs of the session matching create an agent
MaxCreateTime == 0

\* ------------------------------------------------------------ program constants
MAX_NOTIFICATIONS == 3
DEFAULT_DURATION == 5
PAUSE_LONG == 3
SIDEBAR == 0
STARTUP_PANE == 1
SIDEBAR_WIDTH == 25
None == -1

VARIABLES
    tm,            \* tmux server: [main, bg, next]
    store,         \* StateStore: [agents, active_index, notifications,
                   \*              current_agent_name, notified]
    mounted,       \* on_mount has run
    tracked,       \* Sidebar._tracked_panes (main.py): Seq of [pane_id, name]
    agentsByPane,  \* Sidebar._agents_by_pane: pane_id -> GeminiAgent fields
    pollingPaused, \* Sidebar._polling_paused
    timers,        \* deadlines of the pending _resume_polling timers
    now,           \* time.time(), in seconds
    fs,            \* files: [mapping, agent_state, sessions]
    claimed,       \* models._claimed_sessions
    loop,          \* event loop of ui/sidebar.py: [pending, listening,
                   \*                          accepted, closed, open, keys]
    lastOp,        \* the handler that ran last, with its argument
    delivered      \* the subscriber calls of the last store operation

vars == <<tm, store, mounted, tracked, agentsByPane, pollingPaused, timers,
          now, fs, claimed, loop, lastOp, delivered>>

\* ---------------------------------------------------------------- helpers
At(s, i) == s[i + 1]

Range(s) == {s[i] : i \in 1..Len(s)}

Min2(a, b) == IF a < b THEN a ELSE b

Max2(a, b) == IF a > b THEN a ELSE b

RemoveAt(s, i) == [k \in 1..(Len(s) - 1) |-> IF k < i + 1 THEN s[k] ELSE s[k + 1]]

InsertAfter(s, x, new) ==
    LET k == CHOOSE j \in 1..Len(s) : s[j] = x
    IN  SubSeq(s, 1, k) \o <<new>> \o SubSeq(s, k + 1, Len(s))

Without(s, x) == SelectSeq(s, LAMBDA y : y # x)

\* ------------------------------------------------------------------- tmux
\* A tmux command either succeeds and changes the server, or fails and
\* leaves it alone (run_command then raises CalledProcessError).

pane_exists(T, p) == p \in Range(T.main) \/ p \in T.bg

is_in_main_window(T, p) == p \in Range(T.main)

get_pane_id(T, idx) == IF idx < Len(T.main) THEN At(T.main, idx) ELSE None

CanSplit(T, target) == is_in_main_window(T, target)

split_window(T, target) ==
    [T EXCEPT !.main = InsertAfter(@, target, T.next), !.next = @ + 1]

CanBreak(T, p) == is_in_main_window(T, p)

\* mutant: the pane leaves window 0 and is not kept in a background window
break_pane_lost(T, p) ==
    [T EXCEPT !.main = Without(@, p)]

break_pane(T, p) ==
    [T EXCEPT !.main = Without(@, p), !.bg = @ \cup {p}]

CanJoin(T, src, dst) ==
    /\ pane_exists(T, src)
    /\ is_in_main_window(T, dst)
    /\ src # dst

join_pane(T, src, dst) ==
    [T EXCEPT !.main = InsertAfter(Without(@, src), dst, src),
              !.bg = @ \ {src}]

CanKill(T, p) == pane_exists(T, p)

\* mutant: the pane is addressed by its index in window 0, not by its id
kill_pane_by_index(T, p) ==
    [T EXCEPT !.main = Without(@, get_pane_id(T, 1)),
              !.bg = @ \ {get_pane_id(T, 1)}]

kill_pane(T, p) ==
    [T EXCEPT !.main = Without(@, p), !.bg = @ \ {p}]

CanSelectIndex(T, idx) == idx < Len(T.main)

\* ------------------------------------------------------------- StateStore
\* st.notified counts the _notify calls of the running handler; every
\* _notify call invokes each subscriber once with (old_state, new state).

AgentUIState(pane_id, name, status, messages) ==
    [pane_id |-> pane_id, name |-> name, status |-> status,
     messages |-> messages]

UIState ==
    [agents |-> <<>>, active_index |-> 0, notifications |-> <<>>,
     current_agent_name |-> "", notified |-> 0]

_notify(st) == [st EXCEPT !.notified = @ + 1]

add_agent(st, pane_id, name, status, messages) ==
    _notify([st EXCEPT !.agents =
                 Append(@, AgentUIState(pane_id, name, status, messages))])

\* mutant: the active index is not adjusted after the removal
remove_agent_unadjusted(st, pane_id) ==
    LET kept == SelectSeq(st.agents, LAMBDA a : a.pane_id # pane_id)
        idx  == st.active_index
    IN  _notify([st EXCEPT !.agents = kept, !.active_index = idx])

remove_agent(st, pane_id) ==
    LET kept == SelectSeq(st.agents, LAMBDA a : a.pane_id # pane_id)
        idx  == IF st.active_index >= Len(kept)
                THEN Max2(0, Len(kept) - 1)
                ELSE st.active_index
    IN  _notify([st EXCEPT !.agents = kept, !.active_index = idx])

\* mutant: the loop has no test of the pane id: every agent is changed
update_agent_all(st, pane_id, changes) ==
    LET upd(a) == [k \in DOMAIN a |->
                      IF k \in DOMAIN changes THEN changes[k] ELSE a[k]]
    IN  _notify([st EXCEPT !.agents =
                    [i \in 1..Len(st.agents) |-> upd(st.agents[i])]])

\* changes is a function from field names to values; a key that is not an
\* attribute of the agent is skipped (hasattr), and only the first agent
\* with the pane id is touched (break).
update_agent(st, pane_id, changes) ==
    LET hits == {i \in 1..Len(st.agents) : st.agents[i].pane_id = pane_id}
        upd(a) == [k \in DOMAIN a |->
                      IF k \in DOMAIN changes THEN changes[k] ELSE a[k]]
    IN  IF hits = {}
        THEN _notify(st)
        ELSE LET first == CHOOSE i \in hits : \A j \in hits : i <= j
             IN  _notify([st EXCEPT !.agents[first] = upd(@)])

\* mutant: the cap keeps the oldest entries and drops the new one
add_notification_keep_oldest(st, message, duration, t) ==
    LET all == Append(st.notifications,
                      [message |-> message, expire_time |-> t + duration])
        kept == IF Len(all) > MAX_NOTIFICATIONS
                THEN SubSeq(all, 1, MAX_NOTIFICATIONS)
                ELSE all
    IN  _notify([st EXCEPT !.notifications = kept])

add_notification(st, message, duration, t) ==
    LET all == Append(st.notifications,
                      [message |-> message, expire_time |-> t + duration])
        kept == IF Len(all) > MAX_NOTIFICATIONS
                THEN SubSeq(all, Len(all) - MAX_NOTIFICATIONS + 1, Len(all))
                ELSE all
    IN  _notify([st EXCEPT !.notifications = kept])

expire_notifications(st, t) ==
    IF \E i \in 1..Len(st.notifications) : t >= st.notifications[i].expire_time
    THEN _notify([st EXCEPT !.notifications =
                      SelectSeq(@, LAMBDA n : t < n.expire_time)])
    ELSE st

\* mutant: a call that names the index already active returns early
set_active_agent_guarded(st, index) ==
    IF 0 <= index /\ index < Len(st.agents) /\ index # st.active_index
    THEN _notify([st EXCEPT
             !.active_index = index,
             !.current_agent_name = At(st.agents, index).name,
             !.agents = [i \in 1..Len(st.agents) |->
                 IF i = index + 1
                 THEN [st.agents[i] EXCEPT !.status = "active"]
                 ELSE IF st.agents[i].status = "active"
                      THEN [st.agents[i] EXCEPT !.status = "idle"]
                      ELSE st.agents[i]]])
    ELSE st

set_active_agent(st, index) ==
    IF 0 <= index /\ index < Len(st.agents)
    THEN _notify([st EXCEPT
             !.active_index = index,
             !.current_agent_name = At(st.agents, index).name,
             !.agents = [i \in 1..Len(st.agents) |->
                 IF i = index + 1
                 THEN [st.agents[i] EXCEPT !.status = "active"]
                 ELSE IF st.agents[i].status = "active"
                      THEN [st.agents[i] EXCEPT !.status = "idle"]
                      ELSE st.agents[i]]])
    ELSE st

\* a handler starts with no subscriber call counted
Fresh(st) == [st EXCEPT !.notified = 0]

\* ------------------------------------------------------- Sidebar (main.py)
\* Names are [base, n]: "gemini" is ["gemini", 0], "gemini-2" is
\* ["gemini", 2]; name.startswith(agent_name) compares the base.
Name(base, n) == [base |-> base, n |-> n]

\* the agents offered by the selection modal: the configured agents (the
\* modal also offers "Empty Shell", which display_name and the command
\* check handle; the runs here pick a configured agent)
AgentChoices == {"gemini"}

\* the indices bound to the keys 1..5
SwitchKeys == 0..4

TrackedPane(pane_id, name) == [pane_id |-> pane_id, name |-> name]

\* created_at is time.time() at the construction of the agent
GeminiAgent(uuid, name, pane_id, created_at) ==
    [uuid |-> uuid, name |-> name, pane_id |-> pane_id, status |-> "idle",
     session_id |-> None, session_path |-> None, watcher |-> FALSE,
     created_at |-> created_at]

\* /tmp/impromptu_session_mapping.txt (its lines),
\* /tmp/impromptu_agent_state.txt (uuid -> value) and the session files of
\* the project, named by the session id they were written for
Files(mapping, agent_state, sessions) ==
    [mapping |-> mapping, agent_state |-> agent_state, sessions |-> sessions]

NoFiles == Files(<<>>, <<>>, {})

\* res is the branch the handler left through
Op(op, arg, res) == [op |-> op, arg |-> arg, res |-> res]

_pause_polling(ts, t, duration) == ts \cup {t + duration}

\* mutant: the message is dropped
_show_notification_dropped(st, message, t) == st

_show_notification(st, message, t) ==
    add_notification(st, message, DEFAULT_DURATION, t)

\* first tracked pane that is in window 0, or None
_get_visible_pane(T, tr) ==
    LET vis == {i \in 1..Len(tr) :
                   tr[i].pane_id # SIDEBAR /\ is_in_main_window(T, tr[i].pane_id)}
    IN  IF vis = {} THEN None
        ELSE tr[CHOOSE i \in vis : \A j \in vis : i <= j].pane_id

display_name(tr, agent_name) ==
    IF agent_name = "Empty Shell"
    THEN Name("shell", Len(tr) + 1)
    ELSE LET count == Cardinality({i \in 1..Len(tr) : tr[i].name.base = agent_name})
         IN  IF count > 0 THEN Name(agent_name, count + 1)
             ELSE Name(agent_name, 0)

\* the tmux command of a handler that fails in a run: none of them, or the
\* first one, or (for a create) the break-pane after the split
CommandFailures == {"none", "first", "break"}

\* _create_agent: the panes, the tracking and the store after the call, and
\* what it returned ("agent", "none") or that it raised ("raise"); fail
\* names the tmux command that returns non-zero (run_command then raises)
_create_agent(T, st, tr, abp, name, cmdFound, is_first, t, fail) ==
    LET same(res, st1) == [tm |-> T, store |-> st1, tracked |-> tr,
                           abp |-> abp, result |-> res]
        visible == _get_visible_pane(T, tr)
        T1 == IF is_first
              THEN split_window(T, SIDEBAR)
              ELSE break_pane(split_window(T, visible), visible)
        new_pane_id == get_pane_id(T1, 1)
        new_pane == TrackedPane(new_pane_id, name)
        tr1  == IF is_first THEN <<new_pane>> ELSE Append(tr, new_pane)
        abp1 == [p \in DOMAIN abp \cup {new_pane_id} |->
                    IF p = new_pane_id
                    THEN GeminiAgent(T.next, name, new_pane_id, t)
                    ELSE abp[p]]
        st1  == add_agent(st, new_pane_id, name, "idle", <<>>)
        st2  == IF is_first
                THEN set_active_agent(st1, 0)
                ELSE set_active_agent(st1, Len(st1.agents) - 1)
    IN  IF ~cmdFound
        THEN same("none", _show_notification(st, "Error: Command not found", t))
        ELSE IF ~is_first /\ visible = None
        THEN same("none", st)
        ELSE IF fail = "first"
        THEN same("raise", st)
        ELSE IF ~is_first /\ fail = "break"
        THEN [tm |-> split_window(T, visible), store |-> st, tracked |-> tr,
              abp |-> abp, result |-> "raise"]
        ELSE IF ~is_first /\ ~CanSelectIndex(T1, 1)
        THEN [tm |-> T1, store |-> st, tracked |-> tr, abp |-> abp,
              result |-> "raise"]
        ELSE IF new_pane_id = None
        THEN [tm |-> T1, store |-> st, tracked |-> tr, abp |-> abp,
              result |-> "none"]
        ELSE [tm |-> T1, store |-> st2, tracked |-> tr1, abp |-> abp1,
              result |-> "agent"]

\* on_mount: kill the pane of the startup script, create the first agent.
\* on_mount calls _create_agent outside any try block: a tmux command that
\* fails there raises out of on_mount and ends the application, which can
\* be started again.
mount(fail) ==
    /\ ~mounted
    /\ tm.next <= MaxPanes
    /\ \E cmdFound \in BOOLEAN :
         LET T0 == IF get_pane_id(tm, 1) # None
                   THEN kill_pane(tm, get_pane_id(tm, 1))
                   ELSE tm
             r  == _create_agent(T0, Fresh(store), tracked, agentsByPane,
                                 Name("gemini", 0), cmdFound, TRUE, now,
                                 fail)
         IN  /\ tm' = r.tm
             /\ store' = r.store
             /\ tracked' = r.tracked
             /\ agentsByPane' = r.abp
             /\ lastOp' = Op("on_mount", None, r.result)
             /\ mounted' = (r.result # "raise")
    /\ fs' = NoFiles
    /\ UNCHANGED <<delivered, pollingPaused, timers, now, claimed, loop>>

\* the runs in which every tmux command of on_mount succeeds
on_mount == mount("none")

\* action_new_agent, through the modals, to _create_agent_pane; fail names
\* the tmux command of the call that fails
create_agent_pane(fail) ==
    /\ mounted
    /\ tm.next <= MaxPanes
    /\ \E agent_name \in AgentChoices, cmdFound \in BOOLEAN :
         LET name == display_name(tracked, agent_name)
             found == cmdFound \/ agent_name = "Empty Shell"
             r == _create_agent(tm, Fresh(store), tracked, agentsByPane,
                                name, found, FALSE, now, fail)
         IN  /\ tm' = r.tm
             /\ tracked' = r.tracked
             /\ agentsByPane' = r.abp
             /\ IF r.result = "agent"
                THEN /\ pollingPaused' = TRUE
                     /\ timers' = _pause_polling(timers, now, PAUSE_LONG)
                     /\ store' = _show_notification(r.store, "Started", now)
                ELSE /\ UNCHANGED <<pollingPaused, timers>>
                     /\ store' = _show_notification(r.store,
                           IF r.result = "none" THEN "Failed to create agent"
                           ELSE "Failed", now)
             /\ lastOp' = Op("new_agent", None, r.result)
    /\ UNCHANGED <<delivered, mounted, now, fs, claimed, loop>>

\* the runs in which every tmux command of the call succeeds
_create_agent_pane == create_agent_pane("none")

\* fail = "first": the batched tmux command returns non-zero and leaves the
\* server as it was
switch_agent(index, fail) ==
    /\ mounted
    /\ LET st == Fresh(store)
           target_pane == At(tracked, index)
           ai == st.active_index
           current_pane == IF 0 <= ai /\ ai < Len(tracked)
                           THEN At(tracked, ai).pane_id ELSE None
           should_break_current ==
               current_pane # None /\ is_in_main_window(tm, current_pane)
           T1 == IF should_break_current
                 THEN join_pane(break_pane(tm, current_pane),
                                target_pane.pane_id, SIDEBAR)
                 ELSE join_pane(tm, target_pane.pane_id, SIDEBAR)
       IN  IF index >= Len(tracked)
           THEN /\ store' = _show_notification(st, "No agent", now)
                /\ lastOp' = Op("switch_agent", index, "no_agent")
                /\ UNCHANGED <<tm, pollingPaused, timers>>
           ELSE IF index = ai
           THEN /\ store' = _show_notification(st, "Already on", now)
                /\ lastOp' = Op("switch_agent", index, "already")
                /\ UNCHANGED <<tm, pollingPaused, timers>>
           ELSE IF ~pane_exists(tm, target_pane.pane_id)
           THEN /\ store' = _show_notification(st, "Pane no longer exists", now)
                /\ lastOp' = Op("switch_agent", index, "missing")
                /\ UNCHANGED <<tm, pollingPaused, timers>>
           ELSE IF is_in_main_window(tm, target_pane.pane_id)
           THEN /\ store' = _show_notification(set_active_agent(st, index),
                                               "Focused", now)
                /\ lastOp' = Op("switch_agent", index, "focused")
                /\ UNCHANGED <<tm, pollingPaused, timers>>
           ELSE IF fail # "none"
           THEN /\ store' = _show_notification(st, "Failed", now)
                /\ lastOp' = Op("switch_agent", index, "failed")
                /\ UNCHANGED <<tm, pollingPaused, timers>>
           ELSE /\ tm' = T1
                /\ pollingPaused' = TRUE
                /\ timers' = _pause_polling(timers, now, PAUSE_LONG)
                /\ store' = _show_notification(set_active_agent(st, index),
                                               "Switched to", now)
                /\ lastOp' = Op("switch_agent", index, "switched")
    /\ UNCHANGED <<delivered, mounted, tracked, agentsByPane, now, fs, claimed, loop>>

action_switch_agent(index) == switch_agent(index, "none")

\* current_index is list_view.index, the cursor of the agent list; fail =
\* "first": kill-pane returns non-zero
close_agent(current_index, fail) ==
    /\ mounted
    /\ LET st == Fresh(store)
           pane_id == At(tracked, current_index).pane_id
           tr1 == RemoveAt(tracked, current_index)
           abp1 == [p \in DOMAIN agentsByPane \ {pane_id} |-> agentsByPane[p]]
           st1 == remove_agent(st, pane_id)
           new_index == Min2(current_index, Len(tr1) - 1)
           st2 == set_active_agent(st1, new_index)
       IN  IF current_index = None \/ current_index >= Len(tracked)
           THEN /\ store' = _show_notification(st, "No agent selected", now)
                /\ lastOp' = Op("close_agent", current_index, "no_selection")
                /\ UNCHANGED <<tm, tracked, agentsByPane>>
           ELSE IF Len(tracked) <= 1
           THEN /\ store' = _show_notification(st, "Cannot close last agent", now)
                /\ lastOp' = Op("close_agent", current_index, "last_agent")
                /\ UNCHANGED <<tm, tracked, agentsByPane>>
           ELSE IF ~CanKill(tm, pane_id) \/ fail # "none"
           THEN /\ store' = _show_notification(st, "Failed to close", now)
                /\ lastOp' = Op("close_agent", current_index, "kill_failed")
                /\ UNCHANGED <<tm, tracked, agentsByPane>>
           ELSE \* _refresh_list raises NameError in _render_agent_list
                \* (active_pane_id is not defined): the except branch
                \* reports the close as failed after it was carried out
                /\ tm' = kill_pane(tm, pane_id)
                /\ tracked' = tr1
                /\ agentsByPane' = abp1
                /\ store' = _show_notification(st2, "Failed to close", now)
                /\ lastOp' = Op("close_agent", current_index, "closed")
    /\ UNCHANGED <<delivered, mounted, pollingPaused, timers, now, fs, claimed, loop>>

action_close_agent(current_index) == close_agent(current_index, "none")

\* the names a user types into the rename modal
NewNames == {Name("renamed", 0)}

\* None as the result of the rename modal: it was dismissed
NoName == Name("", 0)

\* _on_rename_complete: the rename modal returns new_name (NoName when it
\* was dismissed); current_index is list_view.index.  The name goes to the
\* TrackedPane only; _refresh_list then raises NameError in
\* _render_agent_list (active_pane_id is not defined), so the handler
\* ends there: no _pause_polling, no notification, no select-pane.
_on_rename_complete(current_index, new_name) ==
    /\ mounted
    /\ IF new_name = NoName
       THEN /\ lastOp' = Op("rename", current_index, "dismissed")
            /\ UNCHANGED tracked
       ELSE IF current_index = None \/ current_index >= Len(tracked)
       THEN /\ lastOp' = Op("rename", current_index, "no_selection")
            /\ UNCHANGED tracked
       ELSE /\ tracked' = [tracked EXCEPT
                              ![current_index + 1].name = new_name]
            /\ lastOp' = Op("rename", current_index, "raised")
    /\ store' = Fresh(store)
    /\ UNCHANGED <<delivered, tm, mounted, agentsByPane, pollingPaused,
                   timers, now, fs, claimed, loop>>

\* ---------------------------------------------------------- specification
Init ==
    /\ tm = [main |-> <<SIDEBAR, STARTUP_PANE>>, bg |-> {}, next |-> 2]
    /\ store = UIState
    /\ mounted = FALSE
    /\ tracked = <<>>
    /\ agentsByPane = <<>>
    /\ pollingPaused = FALSE
    /\ timers = {}
    /\ now = 0
    /\ fs = NoFiles
    /\ claimed = {}
    /\ loop = [pending |-> <<>>, listening |-> {}, accepted |-> 0,
               closed |-> 0, open |-> <<>>, keys |-> 0]
    /\ lastOp = Op("init", None, "none")
    /\ delivered = <<>>

Next ==
    \/ on_mount
    \/ _create_agent_pane
    \/ \E index \in SwitchKeys : action_switch_agent(index)
    \/ \E current_index \in {None} \cup 0..(MaxPanes - 2) :
           action_close_agent(current_index)

Spec == Init /\ [][Next]_vars

\* ------------------------------------------- runs with faults of the panes
\* The process of an agent pane ends (the user leaves the agent, or it
\* dies): tmux destroys the pane, and the sidebar is not told.
pane_exits(p) ==
    /\ mounted
    /\ p \in {tracked[i].pane_id : i \in 1..Len(tracked)}
    /\ pane_exists(tm, p)
    /\ tm' = kill_pane(tm, p)
    /\ lastOp' = Op("pane_exit", p, "exited")
    /\ UNCHANGED <<delivered, store, mounted, tracked, agentsByPane, pollingPaused,
                   timers, now, fs, claimed, loop>>

\* the handlers of the sidebar, with tmux commands that may return
\* non-zero, and agent panes that may end at any time
NextFaults ==
    \/ \E fail \in {"none", "first"} : mount(fail)
    \/ /\ tm.next <= MaxFaultPanes
       /\ \E fail \in CommandFailures : create_agent_pane(fail)
    \/ \E index \in SwitchKeys, fail \in {"none", "first"} :
           switch_agent(index, fail)
    \/ \E current_index \in {None} \cup 0..(MaxFaultPanes - 2),
          fail \in {"none", "first"} : close_agent(current_index, fail)
    \/ \E p \in 2..MaxFaultPanes : pane_exits(p)

SpecFaults == Init /\ [][NextFaults]_vars

\* ------------------------------------------------------ runs with renames
NextRename ==
    \/ on_mount
    \/ tm.next <= MaxFaultPanes /\ _create_agent_pane
    \/ \E index \in 0..(MaxFaultPanes - 2) : action_switch_agent(index)
    \/ \E current_index \in {None} \cup 0..(MaxFaultPanes - 2),
          new_name \in NewNames \cup {NoName} :
           _on_rename_complete(current_index, new_name)

SpecRename == Init /\ [][NextRename]_vars

\* ------------------------------------------------------------ pane claims
TrackedIds == {tracked[i].pane_id : i \in 1..Len(tracked)}

VisibleAgentPanes == {p \in TrackedIds : is_in_main_window(tm, p)}

\* C1: in every reachable state at most one tracked agent pane is in the
\* visible window (window 0); the sidebar pane is not counted.
C1_AtMostOneVisible == Cardinality(VisibleAgentPanes) <= 1

\* C3: whenever an agent pane is in the visible window, the store's
\* active_index is the index of that agent.
C3_ActiveIndexIsVisible ==
    \A i \in 1..Len(store.agents) :
        is_in_main_window(tm, store.agents[i].pane_id)
            => store.active_index = i - 1

\* only the pane tracked last is in window 0; every earlier one is parked
\* in a background window
OnlyLastVisible ==
    \A i \in 1..Len(tracked) :
        IF i = Len(tracked)
        THEN is_in_main_window(tm, tracked[i].pane_id)
        ELSE tracked[i].pane_id \in tm.bg

CreateKeepsShape ==
    (/\ lastOp'.op \in {"on_mount", "new_agent"}
     /\ lastOp'.res = "agent"
     /\ OnlyLastVisible)
        => /\ OnlyLastVisible'
           /\ Len(tracked') = Len(tracked) + 1
           /\ VisibleAgentPanes' = {tracked'[Len(tracked')].pane_id}
           /\ \A i \in 1..Len(tracked) : tracked'[i] = tracked[i]

NoAgentPaneKilled ==
    lastOp'.op \in {"on_mount", "new_agent", "switch_agent"}
        => \A p \in TrackedIds : pane_exists(tm, p) => pane_exists(tm', p)

\* C9: creating agents one after another (the first with is_first, each
\* later one by splitting the visible pane and breaking the old one away)
\* leaves only the newest agent's pane in the visible window and every
\* earlier pane alive in a background window; createAgent and switchTo
\* never kill an agent pane.
C9_CreateParksOlderPanes == [][CreateKeepsShape /\ NoAgentPaneKilled]_vars

C9_Witness ==
    /\ lastOp.op = "new_agent"
    /\ lastOp.res = "agent"
    /\ Len(tracked) = 3
    /\ OnlyLastVisible
    /\ Cardinality(tm.bg) = 2

\* The pane ids of a list of agents, in list order.
PaneIds(agents) == [i \in 1..Len(agents) |-> agents[i].pane_id]

\* C10: closing an agent whose pane is hidden removes it from the list and
\* moves no pane: the pane that was visible is still the visible pane.
C10_HiddenCloseKeepsVisible ==
    [][(/\ lastOp'.op = "close_agent"
        /\ lastOp'.res = "closed"
        /\ At(tracked, lastOp'.arg).pane_id \in tm.bg)
          => LET closed == At(tracked, lastOp'.arg).pane_id
             IN  /\ tm'.main = tm.main
                 /\ tm'.bg = tm.bg \ {closed}
                 /\ tracked' = RemoveAt(tracked, lastOp'.arg)
                 /\ \A i \in 1..Len(store'.agents) :
                        store'.agents[i].pane_id # closed
                 /\ Len(store'.agents) < Len(store.agents)
                 /\ PaneIds(store'.agents) =
                        SelectSeq(PaneIds(store.agents),
                                  LAMBDA p : p # closed)]_vars

C10_Witness ==
    /\ lastOp.op = "close_agent"
    /\ lastOp.res = "closed"
    /\ Cardinality(VisibleAgentPanes) = 1
    /\ Len(tm.main) = 2
    /\ Len(tracked) >= 1

\* ------------------------------------------------- StateStore used alone
\* A client calls the operations of the store directly.  store.notified
\* then counts every _notify call of the run.

StorePanes == 2..3

StoreStatuses == {"idle", "busy", "blocked"}

StoreDurations == {1, 2}

sidebarVars ==
    <<tm, mounted, tracked, agentsByPane, pollingPaused, timers, loop>>

StoreAddAgent ==
    /\ Len(store.agents) < MaxStoreAgents
    /\ \E p \in StorePanes :
         /\ store' = add_agent(store, p, Name("gemini", p), "idle", <<>>)
         /\ lastOp' = Op("add_agent", p, "done")
    /\ UNCHANGED <<sidebarVars, now, fs, claimed>>

StoreRemoveAgent ==
    /\ \E p \in StorePanes :
         /\ store' = remove_agent(store, p)
         /\ lastOp' = Op("remove_agent", p, "done")
    /\ UNCHANGED <<sidebarVars, now, fs, claimed>>

StoreUpdateAgent ==
    /\ \E p \in StorePanes, status \in StoreStatuses :
         /\ store' = update_agent(store, p, [status |-> status])
         /\ lastOp' = Op("update_agent", p, status)
    /\ UNCHANGED <<sidebarVars, now, fs, claimed>>

StoreSetActive ==
    /\ \E index \in -1..MaxStoreAgents :
         /\ store' = set_active_agent(store, index)
         /\ lastOp' = Op("set_active_agent", index,
                         IF 0 <= index /\ index < Len(store.agents)
                         THEN IF /\ lastOp.op = "set_active_agent"
                                 /\ lastOp.arg = index
                                 /\ lastOp.res = "valid"
                              THEN "again" ELSE "valid"
                         ELSE "out_of_range")
    /\ UNCHANGED <<sidebarVars, now, fs, claimed>>

StoreAddNotification ==
    /\ \E duration \in StoreDurations :
         /\ store' = add_notification(store, "message", duration, now)
         /\ lastOp' = Op("add_notification", duration, "done")
    /\ UNCHANGED <<sidebarVars, now, fs, claimed>>

StoreExpire ==
    /\ store' = expire_notifications(store, now)
    /\ lastOp' = Op("expire_notifications", None,
                    IF store' = store THEN "none" ELSE "removed")
    /\ UNCHANGED <<sidebarVars, now, fs, claimed>>

Tick ==
    /\ now < MaxTime
    /\ now' = now + 1
    /\ UNCHANGED <<delivered, sidebarVars, store, fs, claimed, lastOp>>

NextStore ==
    \/ /\ store.notified < MaxNotified
       /\ UNCHANGED delivered
       /\ \/ StoreAddAgent
          \/ StoreRemoveAgent
          \/ StoreUpdateAgent
          \/ StoreSetActive
          \/ StoreAddNotification
          \/ StoreExpire
    \/ Tick

SpecStore == Init /\ [][NextStore]_vars

\* C4 (as stated): set_active_agent(i) with i already the active index is a
\* no-op: the second of two consecutive calls with the same i takes no
\* snapshot, changes nothing and invokes no subscriber.  (lastOp records
\* the second call with the result "again".)
C4_SecondCallIsNoOp ==
    [][(/\ lastOp.op = "set_active_agent"
        /\ lastOp.res = "valid"
        /\ lastOp'.op = "set_active_agent"
        /\ lastOp'.res = "again"
        /\ lastOp'.arg = lastOp.arg
        /\ lastOp.arg = store.active_index
        /\ now' = now)
          => store' = store]_vars

\* C4 (amended): the second of two consecutive set_active_agent(i) calls
\* leaves the agents, active_index, current_agent_name and the notifications
\* as they are, and still invokes the subscribers once more.
C4_SecondCallOnlyNotifies ==
    [][(/\ lastOp.op = "set_active_agent"
        /\ lastOp.res = "valid"
        /\ lastOp'.op = "set_active_agent"
        /\ lastOp'.res = "again"
        /\ lastOp'.arg = lastOp.arg
        /\ lastOp.arg = store.active_index
        /\ now' = now)
          => /\ store'.agents = store.agents
             /\ store'.active_index = store.active_index
             /\ store'.current_agent_name = store.current_agent_name
             /\ store'.notifications = store.notifications
             /\ store'.notified = store.notified + 1]_vars

C4_Witness ==
    /\ lastOp.op = "set_active_agent"
    /\ lastOp.res = "again"
    /\ lastOp.arg = 1
    /\ store.active_index = 1
    /\ Len(store.agents) = 2
    /\ store.agents[2].status = "active"
    /\ store.notified = 4

\* C8: every status held in the store is one of idle, busy, blocked.
C8_StatusDomain ==
    \A i \in 1..Len(store.agents) :
        store.agents[i].status \in {"idle", "busy", "blocked"}

\* ------------------------------------------------ subscribers of the store
\* the callbacks registered with subscribe(), in subscription order
Subscribers == <<"_on_state_change", "observer">>

\* UIState.copy: the snapshot an operation takes before it mutates
copy(st) ==
    [agents |-> st.agents, active_index |-> st.active_index,
     notifications |-> st.notifications,
     current_agent_name |-> st.current_agent_name]

Call(callback, old_state, new_state, raised) ==
    [callback |-> callback, old |-> old_state, new |-> new_state,
     raised |-> raised]

\* mutant: no try block around the callback, the first exception ends the
\* loop
callbacks_unguarded(subscribers, raising, old_state, new_state) ==
    LET stop == {i \in 1..Len(subscribers) : subscribers[i] \in raising}
        last == IF stop = {} THEN Len(subscribers)
                ELSE CHOOSE i \in stop : \A j \in stop : i <= j
    IN  [i \in 1..last |->
            Call(subscribers[i], old_state, new_state,
                 subscribers[i] \in raising)]

\* mutant: the callbacks are handed the live state as the old state
callbacks_live(subscribers, raising, old_state, new_state) ==
    [i \in 1..Len(subscribers) |->
        Call(subscribers[i], new_state, new_state,
             subscribers[i] \in raising)]

\* the loop of _notify: every callback is called in turn with (old_state,
\* self._state); an exception of a callback is caught and passed over
callbacks(subscribers, raising, old_state, new_state) ==
    [i \in 1..Len(subscribers) |->
        Call(subscribers[i], old_state, new_state,
             subscribers[i] \in raising)]

\* a client calls an operation of the store; raising are the callbacks
\* that throw during this operation.  An operation that reaches _notify
\* hands it the snapshot taken on entry.
NextSubscribers ==
    \/ /\ store.notified < MaxNotified
       /\ \E raising \in SUBSET Range(Subscribers) :
            /\ \/ StoreAddAgent
               \/ StoreRemoveAgent
               \/ StoreUpdateAgent
               \/ StoreSetActive
               \/ StoreAddNotification
               \/ StoreExpire
            /\ delivered' =
                  IF store'.notified = store.notified THEN <<>>
                  ELSE callbacks(Subscribers, raising, copy(store),
                                 copy(store'))
    \/ Tick

SpecSubscribers == Init /\ [][NextSubscribers]_vars

\* the state of the store as a subscriber sees it
Snapshot(st) ==
    <<st.agents, st.active_index, st.notifications, st.current_agent_name>>

SnapshotOf(u) ==
    <<u.agents, u.active_index, u.notifications, u.current_agent_name>>

\* the calls callback received in the last operation
CallsTo(d, callback) == {i \in 1..Len(d) : d[i].callback = callback}

\* what the operation named by o makes of st at time t
ResultOf(st, o, t) ==
    CASE o.op = "add_agent" ->
           add_agent(st, o.arg, Name("gemini", o.arg), "idle", <<>>)
      [] o.op = "remove_agent" -> remove_agent(st, o.arg)
      [] o.op = "update_agent" -> update_agent(st, o.arg, [status |-> o.res])
      [] o.op = "set_active_agent" -> set_active_agent(st, o.arg)
      [] o.op = "add_notification" -> add_notification(st, "message", o.arg, t)
      [] o.op = "expire_notifications" -> expire_notifications(st, t)

\* C19: if a subscriber throws during a store operation, every other
\* subscriber is still invoked for that operation, and the store holds the
\* state the operation produces when no subscriber fails.  (A step that
\* leaves the clock alone is an operation of the store.)
C19_SubscriberIsolation ==
    [][(/\ now' = now
        /\ \E i \in 1..Len(delivered') : delivered'[i].raised)
          => /\ \A k \in 1..Len(Subscribers) :
                    Cardinality(CallsTo(delivered', Subscribers[k])) = 1
             /\ store' = ResultOf(store, lastOp', now)]_vars

C19_Witness ==
    /\ Len(delivered) = 2
    /\ delivered[1].raised
    /\ ~delivered[2].raised
    /\ delivered[2].callback = "observer"
    /\ lastOp.op = "update_agent"
    /\ Len(store.agents) = 2

\* the step of a mutating operation of the store
IsMutation ==
    \/ lastOp'.op \in {"add_agent", "remove_agent", "update_agent",
                       "add_notification"}
    \/ lastOp'.op = "set_active_agent" /\ lastOp'.res \in {"valid", "again"}

\* C20: every mutating operation of the store invokes each subscriber
\* exactly once with (old, new): old is the state before the operation,
\* untouched by the mutation, and new is the state after it.
C20_SubscribersGetOldAndNew ==
    [][(IsMutation /\ now' = now)
          => \A k \in 1..Len(Subscribers) :
                 /\ Cardinality(CallsTo(delivered', Subscribers[k])) = 1
                 /\ \A i \in CallsTo(delivered', Subscribers[k]) :
                        /\ SnapshotOf(delivered'[i].old) = Snapshot(store)
                        /\ SnapshotOf(delivered'[i].new) = Snapshot(store')]_vars

C20_Witness ==
    /\ lastOp.op = "set_active_agent"
    /\ lastOp.res = "valid"
    /\ Len(delivered) = 2
    /\ delivered[1].old.active_index = 0
    /\ delivered[1].new.active_index = 1
    /\ delivered[2].old.agents # delivered[2].new.agents
    /\ store.active_index = 1

\* ------------------------------------------------------ agent.py (hooks)
\* A text is a sequence of characters; a preview message is (role, text).
\* NoMsg stands for "no message" and NoStatus for "no status" (Python None).
Msg(role, text) == [role |-> role, text |-> text]

NoMsg == Msg("", <<>>)

NoStatus == ""

THINKING == <<"Thinking...">>

\* text[:n] + '...' if len(text) > n else text
Ellipsis(text, n) ==
    IF Len(text) > n THEN SubSeq(text, 1, n) \o <<".", ".", ".">> ELSE text

\* s.strip(): the text without its leading and trailing white space
Whitespace == {" ", "\n"}

strip(text) ==
    LET black == {i \in 1..Len(text) : text[i] \notin Whitespace}
    IN  IF black = {} THEN <<>>
        ELSE SubSeq(text, CHOOSE i \in black : \A j \in black : i <= j,
                          CHOOSE i \in black : \A j \in black : j <= i)

RECURSIVE LastLineFrom(_, _)
\* the last line of text[:i] that is not blank, stripped
LastLineFrom(text, i) ==
    IF i = 0 THEN <<>>
    ELSE LET starts == {j \in 1..(i + 1) : \A k \in j..i : text[k] # "\n"}
             first == CHOOSE j \in starts : \A k \in starts : j <= k
             line == strip(SubSeq(text, first, i))
         IN  IF line # <<>> THEN line
             ELSE LastLineFrom(text, Max2(first - 2, 0))

\* lines[-1] of [l.strip() for l in text.strip().split('\n') if l.strip()]
last_line(text) == LastLineFrom(text, Len(text))

\* agent.GeminiAgent: status is the field of the Agent dataclass
agent_GeminiAgent(uuid, name, pane_id) ==
    [uuid |-> uuid, name |-> name, pane_id |-> pane_id, status |-> "idle",
     session_id |-> None]

\* a hook message: text is the prompt, the response text, the tool name or
\* the prompt_response, whichever the event carries
HookMessage(event, session_id, text, notification_type) ==
    [hook_event_name |-> event, session_id |-> session_id, text |-> text,
     notification_type |-> notification_type]

\* mutant: the status follows the table of state_tracker.sh, where
\* AfterModel means idle
hook_status_tracker(agent, message) ==
    LET event == message.hook_event_name
    IN  IF event \in {"BeforeAgent", "BeforeModel"} THEN "busy"
        ELSE IF event \in {"AfterAgent", "AfterModel"} THEN "idle"
        ELSE IF event = "Notification"
        THEN IF message.notification_type = "ToolPermission" THEN "blocked"
             ELSE IF agent.status = "blocked" THEN "busy"
             ELSE NoStatus
        ELSE NoStatus

\* mutant: the notification type is compared with a misspelt name
hook_status_misspelt(agent, message) ==
    LET event == message.hook_event_name
    IN  IF event = "BeforeAgent" THEN "busy"
        ELSE IF event = "AfterAgent" THEN "idle"
        ELSE IF event = "Notification"
        THEN IF message.notification_type = "tool_permission" THEN "blocked"
             ELSE IF agent.status = "blocked" THEN "busy"
             ELSE NoStatus
        ELSE NoStatus

\* mutant: a tool call ends the busy period and the next one starts it
\* again
hook_status_tools(agent, message) ==
    LET event == message.hook_event_name
    IN  IF event \in {"BeforeAgent", "BeforeTool"} THEN "busy"
        ELSE IF event \in {"AfterAgent", "AfterTool"} THEN "idle"
        ELSE IF event = "Notification"
        THEN IF message.notification_type = "ToolPermission" THEN "blocked"
             ELSE IF agent.status = "blocked" THEN "busy"
             ELSE NoStatus
        ELSE NoStatus

\* new_status of GeminiAgent.handle_hook
hook_status(agent, message) ==
    LET event == message.hook_event_name
    IN  IF event = "BeforeAgent" THEN "busy"
        ELSE IF event = "AfterAgent" THEN "idle"
        ELSE IF event = "Notification"
        THEN IF message.notification_type = "ToolPermission" THEN "blocked"
             ELSE IF agent.status = "blocked" THEN "busy"
             ELSE NoStatus
        ELSE NoStatus

\* mutant: an event without a branch of its own is shown like model text
hook_message_any(message) ==
    LET event == message.hook_event_name
        text == message.text
    IN  IF event = "BeforeAgent"
        THEN IF text # <<>> THEN Msg("user", Ellipsis(text, 50)) ELSE NoMsg
        ELSE IF event = "BeforeModel"
        THEN Msg("gemini", THINKING)
        ELSE IF event = "BeforeTool"
        THEN IF text # <<>> THEN Msg("tool", <<"->">> \o text) ELSE NoMsg
        ELSE IF event = "AfterTool"
        THEN IF text # <<>> THEN Msg("tool", <<"ok">> \o text) ELSE NoMsg
        ELSE IF event = "AfterAgent"
        THEN IF last_line(text) # <<>>
             THEN Msg("gemini", Ellipsis(last_line(text), 60)) ELSE NoMsg
        ELSE IF event = "Notification"
        THEN IF message.notification_type = "ToolPermission"
             THEN Msg("blocked", <<"Approval needed:">> \o
                            (IF text # <<>> THEN text ELSE <<"permission">>))
             ELSE NoMsg
        ELSE IF text # <<>> THEN Msg("gemini", Ellipsis(text, 50)) ELSE NoMsg

\* new_message of GeminiAgent.handle_hook
hook_message(message) ==
    LET event == message.hook_event_name
        text == message.text
    IN  IF event = "BeforeAgent"
        THEN IF text # <<>> THEN Msg("user", Ellipsis(text, 50)) ELSE NoMsg
        ELSE IF event = "BeforeModel"
        THEN Msg("gemini", THINKING)
        ELSE IF event = "AfterModel"
        THEN IF text # <<>> THEN Msg("gemini", Ellipsis(text, 50)) ELSE NoMsg
        ELSE IF event = "BeforeTool"
        THEN IF text # <<>> THEN Msg("tool", <<"->">> \o text) ELSE NoMsg
        ELSE IF event = "AfterTool"
        THEN IF text # <<>> THEN Msg("tool", <<"ok">> \o text) ELSE NoMsg
        ELSE IF event = "AfterAgent"
        THEN IF last_line(text) # <<>>
             THEN Msg("gemini", Ellipsis(last_line(text), 60)) ELSE NoMsg
        ELSE IF event = "Notification"
                /\ message.notification_type = "ToolPermission"
        THEN Msg("blocked", <<"Approval needed:">> \o
                            (IF text # <<>> THEN text ELSE <<"permission">>))
        ELSE NoMsg

\* GeminiAgent.handle_hook: the agent after the call, and what it returned
handle_hook(agent, message) ==
    [agent |-> IF /\ message.hook_event_name = "SessionStart"
                  /\ message.session_id # None
                  /\ agent.session_id = None
               THEN [agent EXCEPT !.session_id = message.session_id]
               ELSE agent,
     new_status |-> hook_status(agent, message),
     new_message |-> hook_message(message)]

\* ------------------------------------------------- Sidebar (ui/sidebar.py)
\* s[start:] of Python
SliceFrom(s, start) ==
    LET from == IF start < 0 THEN Max2(Len(s) + start, 0)
                ELSE Min2(start, Len(s))
    IN  SubSeq(s, from + 1, Len(s))

\* chunk.rfind(' '), 0-based, -1 when there is no space
rfind_space(chunk) ==
    LET at == {i \in 1..Len(chunk) : chunk[i] = " "}
    IN  IF at = {} THEN -1
        ELSE (CHOOSE i \in at : \A j \in at : j <= i) - 1

RECURSIVE wrap_keep_space(_, _, _, _)
\* mutant: the space a line is broken at opens the next line
wrap_keep_space(remaining, lines, is_first, width) ==
    LET role == IF is_first THEN "gemini" ELSE "continuation"
        last_space == rfind_space(SubSeq(remaining, 1, width))
        at_space == last_space > width \div 2
        chunk == IF at_space THEN SubSeq(remaining, 1, last_space)
                 ELSE SubSeq(remaining, 1, width)
        rest == IF at_space THEN SliceFrom(remaining, last_space)
                ELSE SliceFrom(remaining, width)
    IN  IF lines <= 0 \/ remaining = <<>> THEN <<>>
        ELSE IF Len(remaining) <= width THEN <<Msg(role, remaining)>>
        ELSE <<Msg(role, chunk)>>
                 \o wrap_keep_space(rest, lines - 1, FALSE, width)

RECURSIVE wrap(_, _, _, _)
\* the loop that spreads a long response over the lines left for it
wrap(remaining, lines, is_first, width) ==
    LET role == IF is_first THEN "gemini" ELSE "continuation"
        last_space == rfind_space(SubSeq(remaining, 1, width))
        at_space == last_space > width \div 2
        chunk == IF at_space THEN SubSeq(remaining, 1, last_space)
                 ELSE SubSeq(remaining, 1, width)
        rest == IF at_space THEN SliceFrom(remaining, last_space + 1)
                ELSE SliceFrom(remaining, width)
    IN  IF lines <= 0 \/ remaining = <<>> THEN <<>>
        ELSE IF Len(remaining) <= width THEN <<Msg(role, remaining)>>
        ELSE <<Msg(role, chunk)>> \o wrap(rest, lines - 1, FALSE, width)

\* the agent state the newer store keeps: the fields of AgentUIState and
\* the pinned prompt and the line budget that ui/sidebar.py reads
AgentUIStateLines(pane_id, name, status, messages, num_lines) ==
    [pane_id |-> pane_id, name |-> name, status |-> status,
     messages |-> messages, pinned_message |-> NoMsg, num_lines |-> num_lines]

add_agent_lines(st, pane_id, name, status, messages, num_lines) ==
    _notify([st EXCEPT !.agents =
        Append(@, AgentUIStateLines(pane_id, name, status, messages, num_lines))])

\* what _on_hook_message leaves for the event loop: the closure update()
Update(pane_id, event_name, new_status, new_message) ==
    [pane_id |-> pane_id, event_name |-> event_name,
     new_status |-> new_status, new_message |-> new_message]

\* messages of the AfterAgent branch: the pin, then the last response
final_msgs(agent_state, new_message) ==
    LET pinned == agent_state.pinned_message
        msgs == agent_state.messages
        found == {i \in 1..Len(msgs) :
                     msgs[i].role = "gemini" /\ msgs[i].text # THINKING}
        last_response ==
            IF new_message # NoMsg THEN new_message
            ELSE IF found = {} THEN NoMsg
            ELSE msgs[CHOOSE i \in found : \A j \in found : j <= i]
        head == IF pinned # NoMsg THEN <<pinned>> ELSE <<>>
        lines_for_response == agent_state.num_lines - Len(head)
        sidebar_width == SIDEBAR_WIDTH - 4
    IN  IF last_response = NoMsg \/ lines_for_response <= 0 THEN head
        ELSE IF Len(last_response.text) <= sidebar_width
        THEN Append(head, Msg("gemini", last_response.text))
        ELSE head \o wrap(last_response.text, lines_for_response, TRUE,
                          sidebar_width)

\* messages of the last branch: append, keep the pin first, trim
appended_msgs(agent_state, new_message) ==
    LET pinned == agent_state.pinned_message
        max_msgs == agent_state.num_lines
        appended == Append(agent_state.messages, new_message)
        current_msgs ==
            IF pinned # NoMsg /\ appended[1] # pinned
            THEN <<pinned>> \o SelectSeq(appended, LAMBDA m : m # pinned)
            ELSE appended
    IN  IF Len(current_msgs) > max_msgs
        THEN IF pinned # NoMsg
             THEN <<pinned>> \o SliceFrom(current_msgs, -(max_msgs - 1))
             ELSE SliceFrom(current_msgs, -max_msgs)
        ELSE current_msgs

\* mutant: an update whose agent has left the store goes to the active
\* agent
update_fallback(st, u) ==
    LET own == {i \in 1..Len(st.agents) : st.agents[i].pane_id = u.pane_id}
        at == IF own # {} THEN own
              ELSE {st.active_index + 1} \cap (1..Len(st.agents))
        agent_state == st.agents[CHOOSE i \in at : \A j \in at : i <= j]
        pane_id == agent_state.pane_id
        st1 == IF u.new_status # NoStatus
               THEN update_agent(st, pane_id, [status |-> u.new_status])
               ELSE st
    IN  IF at = {} THEN st
        ELSE IF u.event_name = "BeforeAgent"
        THEN IF u.new_message # NoMsg
             THEN update_agent(st1, pane_id,
                      [messages |-> <<u.new_message>>,
                       pinned_message |-> u.new_message])
             ELSE st1
        ELSE IF u.event_name = "AfterAgent"
        THEN update_agent(st1, pane_id,
                 [messages |-> final_msgs(agent_state, u.new_message)])
        ELSE IF u.new_message # NoMsg
        THEN update_agent(st1, pane_id,
                 [messages |-> appended_msgs(agent_state, u.new_message)])
        ELSE st1

\* update(), run by the event loop
update(st, u) ==
    LET at == {i \in 1..Len(st.agents) : st.agents[i].pane_id = u.pane_id}
        agent_state == st.agents[CHOOSE i \in at : \A j \in at : i <= j]
        st1 == IF u.new_status # NoStatus
               THEN update_agent(st, u.pane_id, [status |-> u.new_status])
               ELSE st
    IN  IF at = {} THEN st
        ELSE IF u.event_name = "BeforeAgent"
        THEN IF u.new_message # NoMsg
             THEN update_agent(st1, u.pane_id,
                      [messages |-> <<u.new_message>>,
                       pinned_message |-> u.new_message])
             ELSE st1
        ELSE IF u.event_name = "AfterAgent"
        THEN update_agent(st1, u.pane_id,
                 [messages |-> final_msgs(agent_state, u.new_message)])
        ELSE IF u.new_message # NoMsg
        THEN update_agent(st1, u.pane_id,
                 [messages |-> appended_msgs(agent_state, u.new_message)])
        ELSE st1

\* first agent of the store whose pane is in window 0, or None
_get_visible_pane_id(T, st) ==
    LET vis == {i \in 1..Len(st.agents) :
                   /\ st.agents[i].pane_id # SIDEBAR
                   /\ is_in_main_window(T, st.agents[i].pane_id)}
    IN  IF vis = {} THEN None
        ELSE st.agents[CHOOSE i \in vis : \A j \in vis : i <= j].pane_id

ui_display_name(st, agent_name) ==
    IF agent_name = "Empty Shell"
    THEN Name("shell", Len(st.agents) + 1)
    ELSE LET count == Cardinality({i \in 1..Len(st.agents) :
                                      st.agents[i].name.base = agent_name})
         IN  IF count > 0 THEN Name(agent_name, count + 1)
             ELSE Name(agent_name, 0)

\* the line budgets of the configured agents
NumLinesChoices == {2}

\* _create_agent of ui/sidebar.py: the socket server of the new agent
\* listens from here on
ui_create_agent(T, st, abp, lp, name, cmdFound, is_first, num_lines, t) ==
    LET out(T1, st1, abp1, lp1, res) ==
            [tm |-> T1, store |-> st1, abp |-> abp1, loop |-> lp1,
             result |-> res]
        visible_pane_id == _get_visible_pane_id(T, st)
        T1 == IF is_first
              THEN split_window(T, get_pane_id(T, 0))
              ELSE break_pane(split_window(T, visible_pane_id), visible_pane_id)
        new_pane_id == get_pane_id(T1, 1)
        abp1 == [p \in DOMAIN abp \cup {new_pane_id} |->
                    IF p = new_pane_id
                    THEN agent_GeminiAgent(T.next, name, new_pane_id)
                    ELSE abp[p]]
        lp1  == [lp EXCEPT !.listening = @ \cup {new_pane_id}]
        st1  == add_agent_lines(st, new_pane_id, name, "idle", <<>>, num_lines)
        st2  == IF is_first
                THEN set_active_agent(st1, 0)
                ELSE set_active_agent(st1, Len(st1.agents) - 1)
    IN  IF ~cmdFound
        THEN out(T, _show_notification(st, "Error: Command not found", t),
                 abp, lp, "none")
        ELSE IF ~is_first /\ visible_pane_id = None
        THEN out(T, st, abp, lp, "none")
        ELSE IF ~is_first /\ ~CanSelectIndex(T1, 1)
        THEN out(T1, _show_notification(st, "Failed to create pane", t),
                 abp, lp, "none")
        ELSE IF new_pane_id = None
        THEN out(T1, st, abp, lp, "none")
        ELSE out(T1, st2, abp1, lp1, "agent")

\* lines are the num_lines values the configuration may give the first
\* agent
ui_mount(lines) ==
    /\ ~mounted
    /\ tm.next <= MaxUiPanes
    /\ \E cmdFound \in BOOLEAN, num_lines \in lines :
         LET T0 == IF get_pane_id(tm, 1) # None
                   THEN kill_pane(tm, get_pane_id(tm, 1))
                   ELSE tm
             r  == ui_create_agent(T0, Fresh(store), agentsByPane, loop,
                                   Name("gemini", 0), cmdFound, TRUE,
                                   num_lines, now)
         IN  /\ tm' = r.tm
             /\ store' = r.store
             /\ agentsByPane' = r.abp
             /\ loop' = r.loop
             /\ lastOp' = Op("on_mount", None, r.result)
    /\ mounted' = TRUE
    /\ fs' = NoFiles
    /\ UNCHANGED <<delivered, tracked, pollingPaused, timers, now, claimed>>

ui_on_mount == ui_mount(NumLinesChoices)

ui_create_agent_pane ==
    /\ mounted
    /\ tm.next <= MaxUiPanes
    /\ loop.keys < MaxKeys
    /\ \E agent_name \in AgentChoices, cmdFound \in BOOLEAN,
          num_lines \in NumLinesChoices :
         LET name == ui_display_name(store, agent_name)
             r == ui_create_agent(tm, Fresh(store), agentsByPane, loop, name,
                                  cmdFound, FALSE, num_lines, now)
         IN  /\ tm' = r.tm
             /\ agentsByPane' = r.abp
             /\ loop' = [r.loop EXCEPT !.keys = @ + 1]
             /\ IF r.result = "agent"
                THEN /\ pollingPaused' = TRUE
                     /\ timers' = _pause_polling(timers, now, PAUSE_LONG)
                     /\ store' = _show_notification(r.store, "Started", now)
                ELSE /\ UNCHANGED <<pollingPaused, timers>>
                     /\ store' = _show_notification(r.store,
                                     "Failed to create agent", now)
             /\ lastOp' = Op("new_agent", None, r.result)
    /\ UNCHANGED <<delivered, mounted, tracked, now, fs, claimed>>

ui_action_switch_agent(index) ==
    /\ mounted
    /\ loop.keys < MaxKeys
    /\ loop' = [loop EXCEPT !.keys = @ + 1]
    /\ LET st == Fresh(store)
           target_pane_id == At(st.agents, index).pane_id
           ai == st.active_index
           current_pane_id == IF 0 <= ai /\ ai < Len(st.agents)
                              THEN At(st.agents, ai).pane_id ELSE None
           should_break_current ==
               current_pane_id # None /\ is_in_main_window(tm, current_pane_id)
           T1 == IF should_break_current
                 THEN join_pane(break_pane(tm, current_pane_id),
                                target_pane_id, SIDEBAR)
                 ELSE join_pane(tm, target_pane_id, SIDEBAR)
       IN  IF index >= Len(st.agents)
           THEN /\ store' = _show_notification(st, "No agent", now)
                /\ lastOp' = Op("switch_agent", index, "no_agent")
                /\ UNCHANGED <<tm, pollingPaused, timers>>
           ELSE IF index = ai
           THEN /\ store' = _show_notification(st, "Already on", now)
                /\ lastOp' = Op("switch_agent", index, "already")
                /\ UNCHANGED <<tm, pollingPaused, timers>>
           ELSE IF ~pane_exists(tm, target_pane_id)
           THEN /\ store' = _show_notification(st, "Pane no longer exists", now)
                /\ lastOp' = Op("switch_agent", index, "missing")
                /\ UNCHANGED <<tm, pollingPaused, timers>>
           ELSE IF is_in_main_window(tm, target_pane_id)
           THEN /\ store' = _show_notification(set_active_agent(st, index),
                                               "Focused", now)
                /\ lastOp' = Op("switch_agent", index, "focused")
                /\ UNCHANGED <<tm, pollingPaused, timers>>
           ELSE /\ tm' = T1
                /\ pollingPaused' = TRUE
                /\ timers' = _pause_polling(timers, now, PAUSE_LONG)
                /\ store' = _show_notification(set_active_agent(st, index),
                                               "Switched to", now)
                /\ lastOp' = Op("switch_agent", index, "switched")
    /\ UNCHANGED <<delivered, mounted, tracked, agentsByPane, now, fs, claimed>>

\* cursor is list_view.index; the socket server of a closed agent is
\* dropped from _socket_servers and is not stopped
ui_action_close_agent(cursor) ==
    /\ mounted
    /\ loop.keys < MaxKeys
    /\ loop' = [loop EXCEPT !.keys = @ + 1]
    /\ LET st == Fresh(store)
           visible_pane_id == _get_visible_pane_id(tm, st)
           current_index ==
               IF (cursor = None \/ cursor >= Len(st.agents))
                  /\ visible_pane_id # None
               THEN (CHOOSE i \in 1..Len(st.agents) :
                        /\ st.agents[i].pane_id = visible_pane_id
                        /\ \A j \in 1..(i - 1) :
                               st.agents[j].pane_id # visible_pane_id) - 1
               ELSE cursor
           pane_id == At(st.agents, current_index).pane_id
           abp1 == [p \in DOMAIN agentsByPane \ {pane_id} |-> agentsByPane[p]]
           T1 == kill_pane(tm, pane_id)
           st1 == remove_agent(st, pane_id)
           new_index == Min2(current_index, Len(st1.agents) - 1)
           st2 == IF new_index >= 0 /\ Len(st1.agents) > 0
                  THEN set_active_agent(st1, new_index) ELSE st1
       IN  IF current_index = None \/ current_index >= Len(st.agents)
           THEN /\ store' = _show_notification(st, "No agent selected", now)
                /\ lastOp' = Op("close_agent", cursor, "no_selection")
                /\ UNCHANGED <<tm, agentsByPane>>
           ELSE IF Len(st.agents) <= 1
           THEN /\ store' = st
                /\ lastOp' = Op("close_agent", cursor, "quit_prompt")
                /\ UNCHANGED <<tm, agentsByPane>>
           ELSE IF ~CanKill(tm, pane_id)
           THEN /\ store' = _show_notification(st, "Failed", now)
                /\ lastOp' = Op("close_agent", cursor, "kill_failed")
                /\ UNCHANGED <<tm, agentsByPane>>
           ELSE /\ tm' = T1
                /\ agentsByPane' = abp1
                /\ IF CanSelectIndex(T1, 1)
                   THEN /\ store' = _show_notification(st2, "Closed", now)
                        /\ lastOp' = Op("close_agent", cursor, "closed")
                   ELSE \* select-pane -t 1 fails: the except branch
                        /\ store' = _show_notification(st2, "Failed", now)
                        /\ lastOp' = Op("close_agent", cursor, "closed_failed")
    /\ UNCHANGED <<delivered, mounted, tracked, pollingPaused, timers, now, fs, claimed>>

\* the hook messages of the runs: one turn of the agent loop, the session
\* start and the two kinds of notification
HookMessages ==
    {HookMessage("BeforeAgent", None, <<"o", "k">>, ""),
     HookMessage("BeforeModel", None, <<>>, ""),
     HookMessage("AfterModel", None, <<"o", "k">>, ""),
     HookMessage("AfterAgent", None, <<>>, ""),
     HookMessage("SessionStart", 7, <<>>, ""),
     HookMessage("Notification", None, <<"s", "h">>, "ToolPermission"),
     HookMessage("Notification", None, <<>>, "ToolCompleted")}

\* mutant: the server reads one connection at a time, to EOF
serving_in_turn(lp, pane_id) == pane_id \in lp.listening /\ lp.open = <<>>

\* asyncio.start_unix_server runs _handle_client as a task of its own for
\* every connection it accepts on the socket of pane_id: a connection is
\* served whatever the other handlers wait for
serving(lp, pane_id) == pane_id \in lp.listening

\* a hook connection is accepted on the socket of pane_id and its payload
\* reaches the callback as message; kind is what the payload was (see
\* _process_message).  The connection is closed when the handler ends.
on_hook_message(pane_id, message, kind) ==
    /\ serving(loop, pane_id)
    /\ loop.accepted < MaxHooks
    /\ Len(loop.pending) < MaxPending
    /\ IF pane_id \in DOMAIN agentsByPane
       THEN LET r == handle_hook(agentsByPane[pane_id], message)
            IN  /\ agentsByPane' = [agentsByPane EXCEPT ![pane_id] = r.agent]
                /\ loop' = [loop EXCEPT
                      !.accepted = @ + 1,
                      !.closed = @ + 1,
                      !.pending = Append(@,
                          Update(pane_id, message.hook_event_name,
                                 r.new_status, r.new_message))]
                /\ lastOp' = Op("hook", pane_id,
                                IF kind # "object" THEN kind
                                ELSE IF message.hook_event_name = "Notification"
                                THEN message.notification_type
                                ELSE message.hook_event_name)
       ELSE /\ loop' = [loop EXCEPT !.accepted = @ + 1, !.closed = @ + 1]
            /\ lastOp' = Op("hook", pane_id, "no_agent")
            /\ UNCHANGED agentsByPane
    /\ UNCHANGED <<delivered, tm, store, mounted, tracked, pollingPaused,
                   timers, now, fs, claimed>>

_on_hook_message(pane_id, message) ==
    on_hook_message(pane_id, message, "object")

\* the event loop runs the oldest update() it was handed
run_update ==
    /\ loop.pending # <<>>
    /\ LET u == Head(loop.pending)
       IN  /\ store' = update(Fresh(store), u)
           /\ lastOp' = Op("update", u.pane_id, u.event_name)
    /\ loop' = [loop EXCEPT !.pending = Tail(@)]
    /\ UNCHANGED <<delivered, tm, mounted, tracked, agentsByPane, pollingPaused,
                   timers, now, fs, claimed>>

NextUi ==
    \/ ui_on_mount
    \/ ui_create_agent_pane
    \/ \E index \in 0..(MaxUiPanes - 1) : ui_action_switch_agent(index)
    \/ \E cursor \in {None} \cup 0..(MaxUiPanes - 2) :
           ui_action_close_agent(cursor)
    \/ \E pane_id \in 2..MaxUiPanes, message \in HookMessages :
           _on_hook_message(pane_id, message)
    \/ run_update

SpecUi == Init /\ [][NextUi]_vars

\* ------------------------------------------- hook IPC (socket_server.py)
\* bound: the largest num_lines of a configured agent in the runs below
MaxLines == 3

\* bound: the connections the hook clients of the runs below open
MaxClients == 3

Rep(c, n) == [i \in 1..n |-> c]

\* what a client wrote to the socket: a JSON object (message is its
\* content), JSON that is not an object, bytes that are not JSON (message
\* is what a lenient reader would make of them), or nothing at all
Payload(kind, message) == [kind |-> kind, message |-> message]

\* {"raw": ...}, the dict handed on for bytes that are not JSON: it has
\* none of the keys the hooks read
RawMessage == HookMessage("", None, <<>>, "")

NoDispatch == HookMessage("NoDispatch", None, <<>>, "")

\* mutant: bytes that are not JSON are read leniently and dispatched
_process_message_lenient(payload) ==
    IF payload.kind \in {"object", "malformed"} THEN payload.message
    ELSE NoDispatch

\* the dict _process_message hands to on_message; NoDispatch when
\* message.get raises (the exception is caught and logged)
_process_message(payload) ==
    IF payload.kind = "object" THEN payload.message
    ELSE IF payload.kind = "malformed" THEN RawMessage
    ELSE NoDispatch

\* a client connects to the socket of pane_id, writes payload and closes
\* its end; the server reads to EOF, processes the data if there are any
\* and closes the connection (finally)
_handle_client(pane_id, payload) ==
    LET message == _process_message(payload)
    IN  IF payload.kind # "empty" /\ message # NoDispatch
        THEN on_hook_message(pane_id, message, payload.kind)
        ELSE /\ serving(loop, pane_id)
             /\ loop.accepted < MaxHooks
             /\ loop' = [loop EXCEPT !.accepted = @ + 1, !.closed = @ + 1]
             /\ lastOp' = Op("hook", pane_id, payload.kind)
             /\ UNCHANGED <<delivered, tm, store, mounted, tracked,
                            agentsByPane, pollingPaused, timers, now, fs,
                            claimed>>

\* a client connects to the socket of pane_id and neither writes nor
\* closes: the handler of the connection waits in reader.read(), which has
\* no timeout, and the connection stays open
await_reader_read(pane_id) ==
    /\ serving(loop, pane_id)
    /\ loop.accepted < MaxHooks
    /\ loop' = [loop EXCEPT !.accepted = @ + 1,
                            !.open = Append(@, [pane_id |-> pane_id,
                                                seq |-> loop.accepted])]
    /\ lastOp' = Op("hook", pane_id, "reading")
    /\ UNCHANGED <<delivered, tm, store, mounted, tracked, agentsByPane,
                   pollingPaused, timers, now, fs, claimed>>

\* the prompts and responses of the runs: a prompt longer than 50
\* characters, a response that breaks at a space, one without a space, one
\* of two lines and one longer than 60 characters
LongPrompt == Rep("a", 51)

SpaceResponse == Rep("a", 15) \o <<" ">> \o Rep("b", 14)

SolidResponse == Rep("a", 30)

TwoLineResponse == <<"a", "b", "\n", " ">> \o Rep("b", 22) \o <<" ", "\n">>

LongResponse == Rep("a", 40) \o <<" ">> \o Rep("b", 20)

PreviewMessages ==
    {HookMessage("BeforeAgent", None, <<"h", "i">>, ""),
     HookMessage("BeforeAgent", None, LongPrompt, ""),
     HookMessage("BeforeAgent", None, <<>>, ""),
     HookMessage("BeforeModel", None, <<>>, ""),
     HookMessage("AfterModel", None, <<"o", "k">>, ""),
     HookMessage("BeforeTool", None, <<"s", "h">>, ""),
     HookMessage("AfterTool", None, <<"s", "h">>, ""),
     HookMessage("AfterAgent", None, SpaceResponse, ""),
     HookMessage("AfterAgent", None, SolidResponse, ""),
     HookMessage("AfterAgent", None, TwoLineResponse, ""),
     HookMessage("AfterAgent", None, LongResponse, ""),
     HookMessage("Notification", None, <<"s", "h">>, "ToolPermission"),
     HookMessage("Notification", None, <<>>, "ToolCompleted"),
     HookMessage("PreCompress", None, <<"h", "i">>, "")}

Payloads ==
    {Payload("object", m) : m \in PreviewMessages}
    \cup {Payload("malformed", HookMessage("AfterAgent", None, <<"o">>, "")),
          Payload("not_object", NoDispatch),
          Payload("empty", NoDispatch)}

\* the first agent is created with any line budget up to MaxLines; hook
\* clients then connect to its socket
NextHooks ==
    \/ ui_mount(1..MaxLines)
    \/ /\ loop.accepted < MaxClients
       /\ \E pane_id \in loop.listening, payload \in Payloads :
              _handle_client(pane_id, payload)
    \/ run_update

SpecHooks == Init /\ [][NextHooks]_vars

\* two agents, hook clients that send an event and close, and hook clients
\* that connect and never close
NextConnections ==
    \/ ui_on_mount
    \/ ui_create_agent_pane
    \/ /\ loop.accepted < MaxClients
       /\ \E pane_id \in loop.listening : await_reader_read(pane_id)
    \/ /\ loop.accepted < MaxClients
       /\ \E pane_id \in loop.listening, message \in HookMessages :
              _handle_client(pane_id, Payload("object", message))
    \/ run_update

SpecConnections == Init /\ [][NextConnections]_vars

\* ------------------------------------------------------------ hook claims
\* the status the store holds for the agent of pane p
StatusOf(st, p) ==
    LET at == {i \in 1..Len(st.agents) : st.agents[i].pane_id = p}
    IN  IF at = {} THEN NoStatus
        ELSE st.agents[CHOOSE i \in at : \A j \in at : i <= j].status

\* the step in which the event loop runs the update() at the head of its
\* queue
IsUpdate ==
    /\ loop.pending # <<>>
    /\ loop'.pending = Tail(loop.pending)
    /\ lastOp'.op = "update"

InStore(p) == \E i \in 1..Len(store.agents) : store.agents[i].pane_id = p

C6_UnblockedToBusy ==
    [][IsUpdate /\ InStore(Head(loop.pending).pane_id) =>
        LET u == Head(loop.pending)
        IN  /\ u.event_name = "Notification"
            /\ u.new_message = NoMsg
            /\ StatusOf(store, u.pane_id) = "blocked"
            => StatusOf(store', u.pane_id) = "busy"]_vars

SessionIds == {10, 20}

prefix(session_id) == session_id \div 10

SetFn(f, k, v) == [x \in DOMAIN f \cup {k} |-> IF x = k THEN v ELSE f[x]]

\* a line "agent_id=session_id" of the mapping file
MappingLine(agent_id, session_id) ==
    [agent_id |-> agent_id, session_id |-> session_id]

\* session_start.sh: the lines of the agent are dropped (grep -v) and the
\* new line is put at the end
session_start_sh(F, agent_id, session_id) ==
    [F EXCEPT !.mapping =
        Append(SelectSeq(@, LAMBDA l : l.agent_id # agent_id),
               MappingLine(agent_id, session_id))]

\* the loop of find_session_by_hook over the lines of the mapping file:
\* the session id of the first line that starts with "uuid=", then break
mapped_session(lines, uuid) ==
    LET hits == {i \in 1..Len(lines) : lines[i].agent_id = uuid}
    IN  IF hits = {} THEN None
        ELSE lines[CHOOSE i \in hits : \A j \in hits : i <= j].session_id

\* NEW_STATE of state_tracker.sh, "" when it stays unset
NEW_STATE(event, notification_type) ==
    IF event \in {"BeforeAgent", "BeforeModel", "BeforeTool", "AfterTool"}
    THEN "busy"
    ELSE IF event \in {"AfterAgent", "AfterModel"} THEN "idle"
    ELSE IF event = "Notification" /\ notification_type = "ToolPermission"
    THEN "blocked"
    ELSE ""

state_tracker_sh(F, agent_id, event, notification_type) ==
    IF NEW_STATE(event, notification_type) # ""
    THEN [F EXCEPT !.agent_state =
             SetFn(@, agent_id, NEW_STATE(event, notification_type))]
    ELSE F

\* the session files glob yields for the mapping entry of the agent; the
\* first of them, in directory order, is returned whether claimed or not
hook_candidates(F, agent) ==
    IF mapped_session(F.mapping, agent.uuid) = None THEN {}
    ELSE {f \in F.sessions :
             prefix(f) = prefix(mapped_session(F.mapping, agent.uuid))}

\* first[x] is the file glob yields first for the prefix x
find_session_by_hook(F, agent, first) ==
    IF hook_candidates(F, agent) = {} THEN None
    ELSE first[prefix(mapped_session(F.mapping, agent.uuid))]

\* SessionWatcher.status, read from the state file
watcher_status(F, agent_id) ==
    IF agent_id \in DOMAIN F.agent_state
       /\ F.agent_state[agent_id] \in {"busy", "blocked"}
    THEN F.agent_state[agent_id]
    ELSE "idle"

RECURSIVE update_from(_, _, _, _, _)
\* the loop of _update_all_agents from tracked pane i on; the session files
\* of the runs hold no chat messages
update_from(i, st, tr, abp, F) ==
    IF i > Len(tr) THEN st
    ELSE LET p == tr[i].pane_id
         IN  IF p \in DOMAIN abp /\ abp[p].watcher
             THEN update_from(i + 1,
                      update_agent(st, p,
                          [status |-> watcher_status(F, abp[p].uuid),
                           messages |-> <<>>]),
                      tr, abp, F)
             ELSE update_from(i + 1, st, tr, abp, F)

update_all_agents(st, tr, abp, F) == update_from(1, st, tr, abp, F)

\* find_session_by_pid: the unclaimed session files that started after the
\* process of the agent's pane did; the nearest of them is returned, None
\* when ps does not find the process.  Every session file of the runs is
\* written by a CLI that an agent of the run started.
pid_sessions(T, F, agent, cl) ==
    IF ~pane_exists(T, agent.pane_id) THEN {}
    ELSE F.sessions \ cl

\* find_new_session: new_sessions, the unclaimed session files modified
\* since the agent was created; the oldest of them is returned, None in
\* the first half second of the agent
new_sessions(F, agent, cl, t) ==
    IF 2 * (t - agent.created_at) < 1 THEN {}
    ELSE F.sessions \ cl

RECURSIVE match_from_fallback(_, _, _, _, _, _, _)
\* mutant: an agent the hook mapping yields nothing for takes an unclaimed
\* session file
match_from_fallback(i, st, tr, abp, cl, F, first) ==
    IF i > Len(tr) THEN [store |-> st, abp |-> abp, claimed |-> cl]
    ELSE LET p == tr[i].pane_id
             by_hook == find_session_by_hook(F, abp[p], first)
             session_file ==
                 IF p \in DOMAIN abp /\ abp[p].session_path = None
                 THEN IF by_hook # None THEN by_hook
                      ELSE IF F.sessions \ cl # {}
                      THEN CHOOSE f \in F.sessions \ cl : TRUE
                      ELSE None
                 ELSE None
             abp1 == [abp EXCEPT ![p].session_path = session_file,
                                 ![p].watcher = TRUE]
         IN  IF session_file = None
             THEN match_from_fallback(i + 1, st, tr, abp, cl, F, first)
             ELSE match_from_fallback(i + 1,
                      update_all_agents(st, tr, abp1, F), tr, abp1,
                      cl \cup {session_file}, F, first)

RECURSIVE match_from_reclaim(_, _, _, _, _, _, _)
\* mutant: the loop does not skip an agent that has a session
match_from_reclaim(i, st, tr, abp, cl, F, first) ==
    IF i > Len(tr) THEN [store |-> st, abp |-> abp, claimed |-> cl]
    ELSE LET p == tr[i].pane_id
             session_file ==
                 IF p \in DOMAIN abp
                 THEN find_session_by_hook(F, abp[p], first)
                 ELSE None
             abp1 == [abp EXCEPT ![p].session_path = session_file,
                                 ![p].watcher = TRUE]
         IN  IF session_file = None
             THEN match_from_reclaim(i + 1, st, tr, abp, cl, F, first)
             ELSE match_from_reclaim(i + 1,
                      update_all_agents(st, tr, abp1, F), tr, abp1,
                      cl \cup {session_file}, F, first)

RECURSIVE match_from_notify(_, _, _, _, _, _, _)
\* mutant: an agent the poll finds no session for is reported
match_from_notify(i, st, tr, abp, cl, F, first) ==
    IF i > Len(tr) THEN [store |-> st, abp |-> abp, claimed |-> cl]
    ELSE LET p == tr[i].pane_id
             session_file ==
                 IF p \in DOMAIN abp /\ abp[p].session_path = None
                 THEN find_session_by_hook(F, abp[p], first)
                 ELSE None
             abp1 == [abp EXCEPT ![p].session_path = session_file,
                                 ![p].watcher = TRUE]
         IN  IF session_file = None
             THEN match_from_notify(i + 1,
                      IF p \in DOMAIN abp /\ abp[p].session_path = None
                      THEN _show_notification(st, "No session", 0) ELSE st,
                      tr, abp, cl, F, first)
             ELSE match_from_notify(i + 1,
                      update_all_agents(st, tr, abp1, F), tr, abp1,
                      cl \cup {session_file}, F, first)

RECURSIVE match_from(_, _, _, _, _, _, _)
\* the loop of _match_sessions from tracked pane i on
match_from(i, st, tr, abp, cl, F, first) ==
    IF i > Len(tr) THEN [store |-> st, abp |-> abp, claimed |-> cl]
    ELSE LET p == tr[i].pane_id
             session_file ==
                 IF p \in DOMAIN abp /\ abp[p].session_path = None
                 THEN find_session_by_hook(F, abp[p], first)
                 ELSE None
             abp1 == [abp EXCEPT ![p].session_path = session_file,
                                 ![p].watcher = TRUE]
         IN  IF session_file = None
             THEN match_from(i + 1, st, tr, abp, cl, F, first)
             ELSE match_from(i + 1, update_all_agents(st, tr, abp1, F), tr,
                             abp1, cl \cup {session_file}, F, first)

\* the orders in which glob can list the session files: for every prefix
\* the file it yields first
GlobOrders(F) ==
    {first \in [{prefix(f) : f \in F.sessions} -> F.sessions] :
        \A x \in DOMAIN first : prefix(first[x]) = x}

\* the CLI in the pane of an agent starts or resumes the session
\* session_id and runs the SessionStart hook
SessionStartHook ==
    /\ \E p \in DOMAIN agentsByPane, session_id \in SessionIds :
         /\ pane_exists(tm, p)
         /\ fs' = session_start_sh(fs, agentsByPane[p].uuid, session_id)
         /\ lastOp' = Op("session_start", p, "written")
    /\ UNCHANGED <<delivered, tm, store, mounted, tracked, agentsByPane, pollingPaused,
                   timers, now, claimed, loop>>

\* the CLI writes the file of a session a hook has reported
SessionFileWritten ==
    /\ \E session_id \in SessionIds :
         /\ \E i \in 1..Len(fs.mapping) : fs.mapping[i].session_id = session_id
         /\ session_id \notin fs.sessions
         /\ fs' = [fs EXCEPT !.sessions = @ \cup {session_id}]
         /\ lastOp' = Op("session_file", session_id, "written")
    /\ UNCHANGED <<delivered, tm, store, mounted, tracked, agentsByPane, pollingPaused,
                   timers, now, claimed, loop>>

\* the CLI in the pane of an agent runs the state tracker hook
StateTrackerHook ==
    /\ \E p \in DOMAIN agentsByPane,
          m \in {<<"BeforeAgent", "">>, <<"AfterModel", "">>,
                 <<"Notification", "ToolPermission">>,
                 <<"Notification", "ToolCompleted">>} :
         /\ pane_exists(tm, p)
         /\ fs' = state_tracker_sh(fs, agentsByPane[p].uuid, m[1], m[2])
         /\ lastOp' = Op("state_tracker", p, NEW_STATE(m[1], m[2]))
    /\ UNCHANGED <<delivered, tm, store, mounted, tracked, agentsByPane, pollingPaused,
                   timers, now, claimed, loop>>

\* the 1 s timer
_match_sessions ==
    /\ mounted
    /\ IF pollingPaused
       THEN /\ lastOp' = Op("match_sessions", None, "paused")
            /\ UNCHANGED <<store, agentsByPane, claimed>>
       ELSE \E first \in GlobOrders(fs) :
              LET r == match_from(1, Fresh(store), tracked, agentsByPane,
                                  claimed, fs, first)
              IN  /\ store' = r.store
                  /\ agentsByPane' = r.abp
                  /\ claimed' = r.claimed
                  /\ lastOp' = Op("match_sessions", None,
                                  IF r.abp = agentsByPane THEN "none"
                                  ELSE "matched")
    /\ UNCHANGED <<delivered, tm, mounted, tracked, pollingPaused, timers, now, fs, loop>>

\* the 50 ms timer
_update_all_agents ==
    /\ mounted
    /\ store' = update_all_agents(Fresh(store), tracked, agentsByPane, fs)
    /\ lastOp' = Op("update_all_agents", None, "done")
    /\ UNCHANGED <<delivered, tm, mounted, tracked, agentsByPane, pollingPaused, timers,
                   now, fs, claimed, loop>>

\* a timer set by _pause_polling fires
_resume_polling ==
    /\ \E deadline \in timers :
         /\ deadline <= now
         /\ timers' = timers \ {deadline}
    /\ pollingPaused' = FALSE
    /\ lastOp' = Op("resume_polling", None, "done")
    /\ UNCHANGED <<delivered, tm, store, mounted, tracked, agentsByPane, now, fs, claimed,
                   loop>>

NextSessions ==
    \/ now <= MaxCreateTime /\ on_mount
    \/ now <= MaxCreateTime /\ tm.next <= MaxUiPanes /\ _create_agent_pane
    \/ SessionStartHook
    \/ SessionFileWritten
    \/ StateTrackerHook
    \/ _match_sessions
    \/ _update_all_agents
    \/ _resume_polling
    \/ Tick

SpecSessions == Init /\ [][NextSessions]_vars

\* the session polls alone, with the timers of textual: the 1 s interval
\* of _match_sessions keeps firing, and the clock goes on: time passes and
\* a timer set by _pause_polling fires once its time has come
NextPolling ==
    \/ now <= MaxCreateTime /\ on_mount
    \/ now <= MaxCreateTime /\ tm.next <= MaxUiPanes /\ _create_agent_pane
    \/ SessionStartHook
    \/ SessionFileWritten
    \/ _match_sessions
    \/ _resume_polling
    \/ Tick

SpecPolling ==
    /\ Init
    /\ [][NextPolling]_vars
    /\ WF_vars(_match_sessions)
    /\ WF_vars(Tick \/ _resume_polling)

\* the pane operations, with the polls and the timers of _pause_polling;
\* agents are created, shown and renamed in the first seconds of a run and
\* closed at any time
NextPauses ==
    \/ on_mount
    \/ /\ now <= MaxCreateTime + 1
       /\ tm.next <= MaxUiPanes
       /\ _create_agent_pane
    \/ /\ now <= MaxCreateTime + 1
       /\ \E index \in 0..(MaxUiPanes - 2) : action_switch_agent(index)
    \/ \E current_index \in 0..(MaxUiPanes - 2) :
           action_close_agent(current_index)
    \/ /\ now <= MaxCreateTime + 1
       /\ \E current_index \in 0..(MaxUiPanes - 2), new_name \in NewNames :
              _on_rename_complete(current_index, new_name)
    \/ _match_sessions
    \/ _resume_polling
    \/ Tick

SpecPauses == Init /\ [][NextPauses]_vars

\* ---------------------------------------------- the two status channels
\* HOOKS_CONFIG: the events state_tracker.sh is installed for; AfterAgent
\* and SessionStart are not among them, and the Notification entry has
\* the matcher ToolPermission
tracker_installed(event, notification_type) ==
    \/ event \in {"BeforeAgent", "BeforeModel", "AfterModel", "BeforeTool",
                  "AfterTool"}
    \/ event = "Notification" /\ notification_type = "ToolPermission"

\* the events of the wire format, the two kinds of notification apart
ChannelMessages ==
    HookMessages
    \cup {HookMessage("BeforeTool", None, <<"s", "h">>, ""),
          HookMessage("AfterTool", None, <<"s", "h">>, "")}

\* what lastOp records of a message
Label(message) ==
    IF message.hook_event_name = "Notification"
    THEN message.notification_type
    ELSE message.hook_event_name

\* the CLI in the pane of an agent reaches a hook event: the hooks
\* installed for it run.  state_tracker.sh writes the state file; the
\* event goes to the socket of the agent, where _on_hook_message handles
\* it and the event loop runs update().
hook_event(pane_id, message) ==
    /\ pane_id \in DOMAIN agentsByPane
    /\ serving(loop, pane_id)
    /\ loop.accepted < MaxHooks
    /\ loop.pending = <<>>
    /\ LET agent == agentsByPane[pane_id]
           r == handle_hook(agent, message)
           u == Update(pane_id, message.hook_event_name, r.new_status,
                       r.new_message)
       IN  /\ agentsByPane' = [agentsByPane EXCEPT ![pane_id] = r.agent]
           /\ store' = update(Fresh(store), u)
           /\ fs' = IF tracker_installed(message.hook_event_name,
                                         message.notification_type)
                    THEN state_tracker_sh(fs, agent.uuid,
                                          message.hook_event_name,
                                          message.notification_type)
                    ELSE fs
    /\ loop' = [loop EXCEPT !.accepted = @ + 1, !.closed = @ + 1]
    /\ lastOp' = Op("hook_event", pane_id, Label(message))
    /\ UNCHANGED <<delivered, tm, mounted, tracked, pollingPaused, timers,
                   now, claimed>>

NextChannels ==
    \/ ui_on_mount
    \/ \E pane_id \in loop.listening, message \in ChannelMessages :
           hook_event(pane_id, message)

SpecChannels == Init /\ [][NextChannels]_vars

\* C2: no two agents have the same session_path.
C2_NoSharedSession ==
    \A p, q \in DOMAIN agentsByPane :
        /\ p # q
        /\ agentsByPane[p].session_path # None
        => agentsByPane[p].session_path # agentsByPane[q].session_path

\* two agents constructed within the grace period of find_new_session (0.5
\* s) of each other: the clock counts whole seconds, and two agents that
\* read the same second are taken to be that close
WithinGrace(a, b) == a.created_at = b.created_at

\* C12: two agents created within the grace window of each other, in the
\* same project directory, end with distinct session_path values.
C12_GraceWindowDistinct ==
    \A p, q \in DOMAIN agentsByPane :
        (/\ p < q
         /\ WithinGrace(agentsByPane[p], agentsByPane[q])
         /\ agentsByPane[p].session_path # None
         /\ agentsByPane[q].session_path # None)
            => agentsByPane[p].session_path # agentsByPane[q].session_path

\* ----------------------------------------- the reader of the mapping file
\* bound: the lines of a mapping file handed to the reader
MaxMappingLines == 3

\* the agent ids of the lines
MappingIds == {2, 3}

\* the mapping files of at most MaxMappingLines lines, with any number of
\* lines for one agent
MappingFiles ==
    UNION {[1..n -> {MappingLine(u, s) : u \in MappingIds, s \in SessionIds}] :
              n \in 0..MaxMappingLines}

\* the reader is handed a mapping file; the session files of all sessions
\* exist
InitMapping ==
    /\ tm = [main |-> <<SIDEBAR, STARTUP_PANE>>, bg |-> {}, next |-> 2]
    /\ store = UIState
    /\ mounted = FALSE
    /\ tracked = <<>>
    /\ agentsByPane = <<>>
    /\ pollingPaused = FALSE
    /\ timers = {}
    /\ now = 0
    /\ \E lines \in MappingFiles : fs = Files(lines, <<>>, SessionIds)
    /\ claimed = {}
    /\ loop = [pending |-> <<>>, listening |-> {}, accepted |-> 0,
               closed |-> 0, open |-> <<>>, keys |-> 0]
    /\ lastOp = Op("init", None, "none")
    /\ delivered = <<>>

\* agent.find_session_by_hook() for the agent with the given uuid
FindSessionByHook ==
    /\ \E uuid \in MappingIds, first \in GlobOrders(fs) :
         lastOp' = Op("find_session_by_hook", uuid,
                      find_session_by_hook(fs,
                          GeminiAgent(uuid, Name("gemini", 0), uuid, 0),
                          first))
    /\ UNCHANGED <<delivered, tm, store, mounted, tracked, agentsByPane,
                   pollingPaused, timers, now, fs, claimed, loop>>

NextMapping == FindSessionByHook

SpecMapping == InitMapping /\ [][NextMapping]_vars

Panes(T) == Range(T.main) \cup T.bg

\* C11: a switch to an index whose agent pane no longer exists reports the
\* missing pane, issues no break-pane or join-pane, and leaves active_index
\* and the agent list as they were.
C11_MissingPaneReported ==
    [][(/\ lastOp'.op = "switch_agent"
        /\ lastOp'.arg < Len(tracked)
        /\ ~pane_exists(tm, At(tracked, lastOp'.arg).pane_id))
          => /\ lastOp'.res = "missing"
             /\ tm' = tm
             /\ store'.active_index = store.active_index
             /\ store'.agents = store.agents]_vars

\* C13: a close with exactly one agent tracked kills no pane, removes
\* nothing and goes to the quit confirmation; and no close empties the
\* agent list once it holds an agent.
C13_LastAgentCloseRejected ==
    [][/\ (/\ lastOp'.op = "close_agent"
           /\ Len(tracked) = 1
           /\ lastOp'.arg = 0)
             => /\ Panes(tm') = Panes(tm)
                /\ tracked' = tracked
                /\ store'.agents = store.agents
                /\ lastOp'.res = "quit_prompt"
       /\ (lastOp'.op = "close_agent" /\ store.agents # <<>>)
             => store'.agents # <<>>]_vars

\* C14: after a close that succeeded, the closed agent's hook socket no
\* longer listens and its session is no longer in the claimed set.
C14_CloseReleasesResources ==
    [][(/\ lastOp'.op = "close_agent"
        /\ lastOp'.res \in {"closed", "closed_failed"})
          => \A p \in DOMAIN agentsByPane \ DOMAIN agentsByPane' :
                 /\ p \notin loop'.listening
                 /\ agentsByPane[p].session_id \notin claimed']_vars

\* the messages of the notifications on display
Messages(st) == {st.notifications[i].message : i \in 1..Len(st.notifications)}

\* C15: a create fails without mutation when the executable is not found or
\* when a non-first create finds no visible agent pane: no pane is created,
\* the agent list, active_index and the pane tracking stay as they were, and
\* a command that was not found is reported by a notification.
C15_CreateFailsFast ==
    [][/\ (lastOp'.op = "new_agent" /\ _get_visible_pane(tm, tracked) = None)
             => lastOp'.res = "none"
       /\ (lastOp'.op \in {"on_mount", "new_agent"} /\ lastOp'.res = "none")
             => /\ Panes(tm') \subseteq Panes(tm)
                /\ tm'.next = tm.next
                /\ store'.agents = store.agents
                /\ store'.active_index = store.active_index
                /\ tracked' = tracked
                /\ agentsByPane' = agentsByPane
                /\ (lastOp'.op = "on_mount"
                      \/ _get_visible_pane(tm, tracked) # None)
                        => "Error: Command not found" \in Messages(store')]_vars

C15_Witness ==
    /\ lastOp.op = "new_agent"
    /\ lastOp.res = "none"
    /\ Len(tracked) = 2
    /\ _get_visible_pane(tm, tracked) = None
    /\ "Error: Command not found" \in Messages(store)

\* C16: a switch to an agent whose pane exists and is hidden leaves that
\* pane the only agent pane of the visible window and active_index equal to
\* the index, whatever creates, switches and closes came before.
C16_SwitchShowsTarget ==
    [][(/\ lastOp'.op = "switch_agent"
        /\ lastOp'.arg < Len(tracked)
        /\ At(tracked, lastOp'.arg).pane_id \in tm.bg)
          => /\ VisibleAgentPanes' = {At(tracked, lastOp'.arg).pane_id}
             /\ store'.active_index = lastOp'.arg]_vars

\* C17: a switch to an agent whose pane is already visible only focuses it:
\* no pane moves, and the agent list, active_index and every status stay as
\* they were.
C17_VisibleSwitchOnlyFocuses ==
    [][(/\ lastOp'.op = "switch_agent"
        /\ lastOp'.arg < Len(tracked)
        /\ is_in_main_window(tm, At(tracked, lastOp'.arg).pane_id))
          => /\ tm' = tm
             /\ store'.agents = store.agents
             /\ store'.active_index = store.active_index]_vars

\* the step of a handler in which a tmux command returned non-zero
CommandFailed ==
    \/ lastOp'.op \in {"on_mount", "new_agent"} /\ lastOp'.res = "raise"
    \/ lastOp'.op = "switch_agent" /\ lastOp'.res = "failed"
    \/ lastOp'.op = "close_agent" /\ lastOp'.res = "kill_failed"

\* C18: when a tmux command of a create, a switch or a close fails, the
\* handler adds a notification and leaves the agent list and active_index
\* as they were, and the application keeps running.
C18_FailedCommandLeavesState ==
    [][CommandFailed
          => /\ store'.agents = store.agents
             /\ store'.active_index = store.active_index
             /\ tracked' = tracked
             /\ store'.notifications # <<>>
             /\ store'.notifications[Len(store'.notifications)].message
                    \in {"Failed", "Failed to close"}
             /\ mounted']_vars
\* ---------------------------------------------------- notification claims
\* s is the sequence t without its first Len(t) - Len(s) entries
IsSuffix(s, t) ==
    /\ Len(s) <= Len(t)
    /\ \A i \in 1..Len(s) : s[i] = t[Len(t) - Len(s) + i]

\* C21: after any sequence of add_notification and expire_notifications
\* calls the store holds at most 3 notifications; after an add the last
\* entry is the one just added, the entries before it are the most recent
\* of the earlier ones in their order, and only as many of the oldest are
\* gone as the cap of 3 requires.
C21_NotificationsCapped ==
    [][/\ Len(store'.notifications) <= 3
       /\ (lastOp'.op = "add_notification" /\ now' = now)
            => LET new == store'.notifications
                   old == store.notifications
               IN  /\ Len(new) = Min2(Len(old) + 1, 3)
                   /\ new[Len(new)] =
                         [message |-> "message",
                          expire_time |-> now + lastOp'.arg]
                   /\ IsSuffix(SubSeq(new, 1, Len(new) - 1), old)]_vars

\* the fourth notification has been added to a full list: the oldest one
\* (added at time 0) is gone and the three later ones are kept in order
C21_Witness ==
    /\ lastOp.op = "add_notification"
    /\ Len(delivered) = 2
    /\ Len(delivered[1].old.notifications) = 3
    /\ delivered[1].old.notifications[1].expire_time = 1
    /\ Len(store.notifications) = 3
    /\ store.notifications[1].expire_time = 3
    /\ store.notifications[3].expire_time = 5

\* ------------------------------------------------------ hook IPC claims
\* the events handle_hook has a branch for
KnownEvents ==
    {"SessionStart", "BeforeAgent", "BeforeModel", "AfterModel",
     "BeforeTool", "AfterTool", "AfterAgent", "Notification"}

\* the step in which a connection hands a message to _on_hook_message
Dispatched ==
    /\ lastOp'.op = "hook"
    /\ loop'.accepted = loop.accepted + 1
    /\ Len(loop'.pending) = Len(loop.pending) + 1

\* the step in which the event loop runs the update() of a hook
Updated ==
    /\ lastOp'.op = "update"
    /\ loop.pending # <<>>
    /\ loop'.pending = Tail(loop.pending)

\* the statuses the agent objects hold
Statuses(abp) == [p \in DOMAIN abp |-> abp[p].status]

OtherFields(agents, index) ==
    [i \in 1..Len(agents) |->
        IF i = index + 1 THEN [agents[i] EXCEPT !.name = NoName]
        ELSE agents[i]]

\* C24: rename(index, newName) sets the name of agent index in the store
\* to newName through a store operation, so the subscribers are notified;
\* it changes no other field of any agent, nor the order of the agents,
\* nor active_index, and it does not raise.
C24_RenameThroughStore ==
    [][(lastOp'.op = "rename"
          /\ lastOp'.res \notin {"dismissed", "no_selection"}
          /\ tracked' # tracked)
          => /\ lastOp'.res # "raised"
             /\ At(store'.agents, lastOp'.arg).name \in NewNames
             /\ store'.notified >= 1
             /\ OtherFields(store'.agents, lastOp'.arg)
                    = OtherFields(store.agents, lastOp'.arg)
             /\ store'.active_index = store.active_index]_vars

\* ---------------------------------------------------- preview buffer claims
\* C25: after any sequence of hook events the preview buffer of every agent
\* has at most num_lines entries, and when the agent has a pinned message
\* the pin is the first entry of the buffer.
C25_PreviewBounded ==
    \A i \in 1..Len(store.agents) :
        LET a == store.agents[i]
        IN  /\ Len(a.messages) <= a.num_lines
            /\ a.pinned_message # NoMsg
                 => a.messages # <<>> /\ a.messages[1] = a.pinned_message

\* the agent of pane p in the store
AgentOf(st, p) ==
    LET at == {i \in 1..Len(st.agents) : st.agents[i].pane_id = p}
    IN  st.agents[CHOOSE i \in at : \A j \in at : i <= j]

\* the prompts of the BeforeAgent events of the runs
Prompts ==
    {m.text : m \in {n \in PreviewMessages :
                        n.hook_event_name = "BeforeAgent"}}

\* C26: when the update of a BeforeAgent event has run, the preview buffer
\* of its agent holds exactly one line, the prompt cut to 50 characters
\* plus an ellipsis, that line is the pinned message, and no line of the
\* previous turn is left.
C26_BeforeAgentPinsPrompt ==
    [][(Updated /\ Head(loop.pending).event_name = "BeforeAgent"
                /\ InStore(Head(loop.pending).pane_id))
          => LET a == AgentOf(store', Head(loop.pending).pane_id)
             IN  /\ Len(a.messages) = 1
                 /\ a.messages[1] = a.pinned_message
                 /\ a.messages[1].role = "user"
                 /\ a.messages[1].text \in
                        {Ellipsis(prompt, 50) : prompt \in Prompts}
                 /\ Len(a.messages[1].text) <= 53]_vars

RECURSIVE IsWrapOf(_, _, _, _)
\* lines are text spread over at most budget lines of at most width
\* characters: a text that fits is one line; a longer one is broken at the
\* last space among its first width characters when that space lies in the
\* second half of the line (the space is dropped), otherwise after width
\* characters; what does not fit into the budget is left out
IsWrapOf(lines, text, width, budget) ==
    IF budget <= 0 \/ text = <<>> THEN lines = <<>>
    ELSE /\ lines # <<>>
         /\ Len(Head(lines).text) <= width
         /\ IF Len(text) <= width
            THEN lines = <<Head(lines)>> /\ Head(lines).text = text
            ELSE LET spaces == {i \in 1..width : text[i] = " "}
                     last == CHOOSE i \in spaces : \A j \in spaces : j <= i
                 IN  IF spaces # {} /\ 2 * (last - 1) > width
                     THEN /\ Head(lines).text = SubSeq(text, 1, last - 1)
                          /\ IsWrapOf(Tail(lines),
                                      SubSeq(text, last + 1, Len(text)),
                                      width, budget - 1)
                     ELSE /\ Head(lines).text = SubSeq(text, 1, width)
                          /\ IsWrapOf(Tail(lines),
                                      SubSeq(text, width + 1, Len(text)),
                                      width, budget - 1)

\* the responses of the AfterAgent events of the runs
Responses ==
    {m.text : m \in {n \in PreviewMessages :
                        n.hook_event_name = "AfterAgent"}}

\* the step that runs the update of an AfterAgent event which carries a
\* response, for an agent of the store
AfterAgentUpdated ==
    /\ Updated
    /\ Head(loop.pending).event_name = "AfterAgent"
    /\ Head(loop.pending).new_message # NoMsg
    /\ InStore(Head(loop.pending).pane_id)

InnerEvents == {"BeforeModel", "AfterModel", "BeforeTool", "AfterTool"}

StoreStatusesOf(st) == [i \in 1..Len(st.agents) |-> st.agents[i].status]

Polled ==
    /\ lastOp'.op = "match_sessions"
    /\ lastOp'.res # "paused"
    /\ ~pollingPaused
    /\ now' = now

\* the panes of the agents a poll looks at: tracked, and without a session
Unmatched ==
    {p \in DOMAIN agentsByPane :
        /\ \E i \in 1..Len(tracked) : tracked[i].pane_id = p
        /\ agentsByPane[p].session_path = None}

Matched == {p \in DOMAIN agentsByPane : agentsByPane[p].session_path # None}

\* C31: once the session_path of an agent has been set by a claim it never
\* changes, and every later poll skips the agent: the poll leaves the
\* agent as it was and claims nothing for it.
C31_SessionPathSetOnce ==
    [][/\ \A p \in Matched \cap DOMAIN agentsByPane' :
             agentsByPane'[p].session_path = agentsByPane[p].session_path
       /\ Polled
            => /\ \A p \in Matched : agentsByPane'[p] = agentsByPane[p]
               /\ claimed' \ claimed
                     \subseteq {agentsByPane'[p].session_path :
                                   p \in Unmatched}]_vars

\* a poll has run over an agent that has a session while the mapping file
\* led to the file of another session, and the agent kept its session
C31_Witness ==
    /\ lastOp.op = "match_sessions"
    /\ lastOp.res # "paused"
    /\ \E p \in Matched :
          /\ hook_candidates(fs, agentsByPane[p]) # {}
          /\ agentsByPane[p].session_path
                \notin hook_candidates(fs, agentsByPane[p])

\* the mapping file has a line for the agent of pane p and the file of
\* the session the line names exists
Ready(p) ==
    /\ p \in DOMAIN agentsByPane
    /\ \E i \in 1..Len(tracked) : tracked[i].pane_id = p
    /\ \E i \in 1..Len(fs.mapping) :
          /\ fs.mapping[i].agent_id = agentsByPane[p].uuid
          /\ fs.mapping[i].session_id \in fs.sessions

\* the entry the store holds for pane p
EntryOf(st, p) == {st.agents[i] : i \in {j \in 1..Len(st.agents) :
                                            st.agents[j].pane_id = p}}

\* a poll that finds nothing for an agent changes nothing: the agent, its
\* entry in the store and the notifications are as before, and nothing is
\* claimed for it; a poll that finds the session of an agent claims it,
\* however many polls found nothing before
RetryKeepsState ==
    Polled
       => \A p \in Unmatched :
             IF agentsByPane'[p].session_path = None
             THEN /\ agentsByPane'[p] = agentsByPane[p]
                  /\ EntryOf(store', p) = EntryOf(store, p)
                  /\ store'.notifications = store.notifications
             ELSE /\ Ready(p)
                  /\ agentsByPane'[p].session_path \in claimed'

\* C32: a poll in which nothing matches changes nothing (no claim, no
\* notification, the status stays) and the agent is tried again on every
\* later poll; an agent whose mapping line and session file are there from
\* some time on is eventually claimed.
C32_RetriedUntilClaimed ==
    /\ [][RetryKeepsState]_vars
    /\ \A p \in 2..MaxUiPanes :
          <>[]Ready(p) => <>(p \in Matched)

\* an agent has been claimed by a poll that came after a poll that found
\* nothing and after the pause of polling had ended
C32_Witness ==
    /\ lastOp = Op("match_sessions", None, "matched")
    /\ now > 0
    /\ timers = {}
    /\ Cardinality(Matched) = 1
    /\ Cardinality(DOMAIN agentsByPane) = 2

\* the step is a pane operation that was carried out: an agent was
\* created, the target of a switch was shown, an agent was closed, a pane
\* was renamed
PaneOperation ==
    \/ lastOp' = Op("new_agent", None, "agent")
    \/ lastOp'.op = "switch_agent" /\ lastOp'.res = "switched"
    \/ lastOp'.op = "close_agent" /\ lastOp'.res = "closed"
    \/ lastOp'.op = "rename" /\ lastOp'.res = "raised"

\* the window of some operation is still running at time t: a timer of
\* _pause_polling is set for a later time
WindowRunning(ts, t) == \E deadline \in ts : deadline > t

\* C33: after every createAgent, switchTo, closeAgent and rename, polling
\* is suppressed for the 2 to 3 seconds that follow, whatever operations
\* came before: the operation leaves polling paused with a window of at
\* least 2 seconds, polling is not resumed while the window of an
\* operation runs, and no poll runs in it.
C33_PollingSuppressedInWindow ==
    [][/\ PaneOperation
            => /\ pollingPaused'
               /\ \E deadline \in timers' :
                     deadline >= now + 2 /\ deadline <= now + 3
       /\ lastOp'.op = "resume_polling" => ~WindowRunning(timers', now)
       /\ Polled => ~WindowRunning(timers, now)]_vars

IsHook == lastOp'.op = "hook" /\ loop'.accepted = loop.accepted + 1

\* what a hook event must leave alone in the entry of its own agent
Identity(a) == [pane_id |-> a.pane_id, name |-> a.name,
                num_lines |-> a.num_lines]

\* the store is as before except for the status and the messages (the
\* preview lines and the pinned prompt) of the agent of pane p
OnlyAgentChanged(p) ==
    /\ Len(store'.agents) = Len(store.agents)
    /\ \A i \in 1..Len(store.agents) :
          IF store.agents[i].pane_id = p
          THEN Identity(store'.agents[i]) = Identity(store.agents[i])
          ELSE store'.agents[i] = store.agents[i]
    /\ store'.active_index = store.active_index
    /\ store'.notifications = store.notifications
    /\ store'.current_agent_name = store.current_agent_name

IsPaneKey ==
    /\ loop'.keys = loop.keys + 1
    /\ lastOp'.op \in {"new_agent", "switch_agent", "close_agent"}

\* C37: createAgent, switchTo and closeAgent leave the hook-derived status
\* of every remaining agent unchanged: an agent that is busy or blocked in
\* the store is still busy or blocked after the operation, also when the
\* operation switches to it or away from it.
C37_PaneOpsKeepHookStatus ==
    [][IsPaneKey
          => \A i \in 1..Len(store.agents) :
                LET p == store.agents[i].pane_id
                IN  /\ store.agents[i].status \in {"busy", "blocked"}
                    /\ StatusOf(store', p) # NoStatus
                    => StatusOf(store', p) = store.agents[i].status]_vars

\* ---------------------------------------------------------- channel claims
\* C38: for every sequence of hook events of one agent, the status of the
\* file channel (written by the installed state_tracker.sh, read through
\* SessionWatcher.status) equals the status handle_hook derives for the
\* same sequence.  Both start at idle, so they agree on every sequence
\* exactly when every event moves the file channel as handle_hook says:
\* to new_status, or nowhere when new_status is None.
C38_ChannelsAgree ==
    [][lastOp'.op = "hook_event"
          => \A message \in ChannelMessages :
                Label(message) = lastOp'.res
                   => LET agent == agentsByPane[lastOp'.arg]
                          new_status == hook_status(agent, message)
                      IN  watcher_status(fs', agent.uuid)
                             = IF new_status # NoStatus THEN new_status
                               ELSE watcher_status(fs, agent.uuid)]_vars


\* C39: whenever the agent list of the store is not empty, active_index is
\* an index of the list (0 <= active_index < len(agents)), after every
\* operation; and set_active_agent with an index out of range leaves the
\* whole state as it was and calls no subscriber.
ActiveIndexInRange(st) ==
    Len(st.agents) > 0
       => 0 <= st.active_index /\ st.active_index < Len(st.agents)

C39_ActiveIndexInRange ==
    /\ ActiveIndexInRange(store)
    /\ [][/\ ActiveIndexInRange(store')
          /\ lastOp'.op = "set_active_agent" /\ lastOp'.res = "out_of_range"
                => store' = store /\ delivered' = <<>>]_vars

\* an agent was removed from a list whose last entry was the active one: the
\* index moved down with the list
C39_Witness ==
    /\ lastOp.op = "remove_agent"
    /\ Len(store.agents) > 0
    /\ store.active_index = Len(store.agents) - 1
    /\ store.active_index > 0


\* C40: after any sequence of creates and closes, _tracked_panes and the
\* agent list of the store have the same length and the same pane id at
\* every index, and the keys of _agents_by_pane are exactly those pane ids:
\* an index taken from the store addresses the same agent in the sidebar.
TrackedPaneIds == {tracked[i].pane_id : i \in 1..Len(tracked)}

====
